---- MODULE Spec2Model ----
(***************************************************************************)
(* State-machine model of the voyager_coder core: the skill library        *)
(* (BaseVectorMem / VoyagerProceduralMem), the QA cache of the curriculum  *)
(* module, and the dependency resolver (append_dependencies).              *)
(*                                                                         *)
(* Source text (function names, code) is modelled as sequences of          *)
(* one-character strings so that str.replace and f-string formatting are   *)
(* computed character by character, as Python computes them.               *)
(***************************************************************************)
EXTENDS Integers, Sequences, FiniteSets, TLC

VARIABLES
    obj,              \* which store object this behaviour constructs: "skill" | "curriculum"
    status,           \* "new" (not constructed yet) | "ok" | "failed" (constructor raised)
    resume,           \* the resume flag given to the constructor
    retrieval_top_k,  \* BaseVectorMem.retrieval_top_k
    pMap,             \* {ckpt_dir}/{vectordb_name}/entries.json on disk
    pIdx,             \* the persisted Chroma collection of the skill store
    fn_str_map,       \* BaseVectorMem.fn_str_map: name -> entry
    vectordb,         \* BaseVectorMem.vectordb: id -> [text, name]
    pQa,              \* {ckpt_dir}/curriculum/qa_cache.json on disk
    pQaIdx,           \* the persisted Chroma collection of cached questions
    qa_cache,         \* BaseCurriculumModule.qa_cache: question -> answer
    qa_vectordb,      \* BaseCurriculumModule.qa_cache_questions_vectordb (texts, in insertion order)
    last,             \* the last operation: its arguments and its result
    fn_str_map_list,  \* append_dependencies: the lookup tables, in search order
    parsed_result,    \* append_dependencies: the candidate (program_code, dependencies, full_code)
    visited,          \* append_dependencies: the names already expanded
    dependent_code,   \* append_dependencies: the code collected so far
    pc,               \* append_dependencies: "idle" | "call" | "loop" | "done"
    called_with,      \* the candidate's dependencies when append_dependencies was called
    discovered,       \* the names whose code was collected, in the order they were found
    completed_tasks,  \* BaseCurriculumModule.completed_tasks
    failed_tasks,     \* BaseCurriculumModule.failed_tasks
    ledger_file,      \* curriculum/completed_tasks.json and failed_tasks.json on disk
    previous_task,    \* VoyagerCurriculumModule.previous_task (0: the empty string)
    agent,            \* VoyagerAgent: the position and the locals of train_step / test_one / rollout
    output_files,     \* the rollout records written by log_rollout (output.json of each task folder)
    error_txt,        \* {result_dir}/error.txt
    proposal,         \* get_next_task: the call in progress or returned, and what it returned
    analysis          \* extract_from_ast / parse_ai_code: the source given and what came back

storeVars == <<obj, status, resume, retrieval_top_k, pMap, pIdx, fn_str_map, vectordb,
               pQa, pQaIdx, qa_cache, qa_vectordb, last>>

depVars == <<fn_str_map_list, parsed_result, visited, dependent_code, pc, called_with,
             discovered>>

ledgerVars == <<completed_tasks, failed_tasks, ledger_file, previous_task>>

agentVars == <<agent, output_files, error_txt, proposal, analysis>>

vars == <<obj, status, resume, retrieval_top_k, pMap, pIdx, fn_str_map, vectordb,
          pQa, pQaIdx, qa_cache, qa_vectordb, last,
          fn_str_map_list, parsed_result, visited, dependent_code, pc, called_with,
          discovered, completed_tasks, failed_tasks, ledger_file, previous_task,
          agent, output_files, error_txt, proposal, analysis>>

(***************************************************************************)
(* Bounds of the model.                                                    *)
(***************************************************************************)
MaxEntries == 3     \* SpecStore adds while the skill store holds fewer entries
MaxPersist == 5     \* the persisted index and map hold up to this many entries each
MaxIndexed == 3     \* SpecRetrieve adds while the skill store holds fewer entries
MaxDesc == 2        \* descriptions and queries of SpecRetrieve are 1..MaxDesc
MaxTopK == 2        \* retrieval_top_k of SpecRetrieve is in 0..MaxTopK
MaxTask == 2        \* tasks are 1..MaxTask

(***************************************************************************)
(* Text.                                                                   *)
(***************************************************************************)
Min(a, b) == IF a <= b THEN a ELSE b

Abs(a) == IF a < 0 THEN 0 - a ELSE a

DigitChar == <<"0", "1", "2", "3", "4", "5", "6", "7", "8", "9">>

\* str(n) of a non-negative integer, as the f-string f'{ver}' formats it
RECURSIVE IntToStr(_)
IntToStr(n) ==
    IF n < 10 THEN <<DigitChar[n + 1]>>
    ELSE IntToStr(n \div 10) \o <<DigitChar[(n % 10) + 1]>>

\* Python's str.replace(old, new), old non-empty: leftmost, non-overlapping
RECURSIVE Replace(_, _, _)
Replace(s, old, new) ==
    IF Len(s) < Len(old) THEN s
    ELSE IF SubSeq(s, 1, Len(old)) = old
         THEN new \o Replace(SubSeq(s, Len(old) + 1, Len(s)), old, new)
         ELSE <<Head(s)>> \o Replace(Tail(s), old, new)

\* f'{name}('
Header(name) == name \o <<"(">>

\* f'{old_name}_v{ver}'
VersionedName(old_name, ver) == old_name \o <<"_", "v">> \o IntToStr(ver)

NoneVal == <<"None">>

AssertionError == <<"AssertionError">>

(***************************************************************************)
(* Maps (Python dicts, Chroma collections).                                *)
(***************************************************************************)
EmptyMap == <<>>

Put(m, k, v) == [x \in (DOMAIN m) \cup {k} |-> IF x = k THEN v ELSE m[x]]

Count(m) == Cardinality(DOMAIN m)

\* the document indexed with an empty text instead of the description
AddTexts_NoText(db, text, id) == Put(db, id, [text |-> 0, name |-> id])

\* Chroma.add_texts(texts=[text], ids=[id], metadatas=[{"name": id}]): an upsert by id
AddTexts(db, text, id) == Put(db, id, [text |-> text, name |-> id])

\* the L2 distance between the embeddings of two descriptions
Distance(q, d) == Abs(q - d)

\* the k nearest of the documents ids, nearest first: every order in which
\* equally distant documents can come
RECURSIVE NearestFirst(_, _, _, _)
NearestFirst(db, ids, query, k) ==
    IF k = 0 THEN {<<>>}
    ELSE LET nearest == {id \in ids : \A o \in ids :
                            Distance(query, db[id].text) <= Distance(query, db[o].text)}
         IN UNION {{<<id>> \o rest : rest \in NearestFirst(db, ids \ {id}, query, k - 1)} :
                      id \in nearest}

\* Chroma.similarity_search(query, k): the k nearest documents, nearest first;
\* which of several equally distant documents comes first is not determined
SimilaritySearch(db, query, k) == NearestFirst(db, DOMAIN db, query, k)

(***************************************************************************)
(* Payloads and persisted stores the behaviours draw from.                 *)
(***************************************************************************)
\* f(x: the body the persisted skills have;  f(f(: a recursive f;
\* f(gf_v2(: an f that calls gf_v2;  g(f(: a g that calls f
Payloads ==
    { [name |-> <<"f">>, code |-> <<"f", "(", "x">>, dependencies |-> <<>>, task |-> 1],
      [name |-> <<"f">>, code |-> <<"f", "(", "f", "(">>, dependencies |-> <<>>, task |-> 2],
      [name |-> <<"f">>, code |-> <<"f", "(", "g", "f", "_", "v", "2", "(">>,
       dependencies |-> << <<"g", "f", "_", "v", "2">> >>, task |-> 2],
      [name |-> <<"g">>, code |-> <<"g", "(", "f", "(">>, dependencies |-> << <<"f">> >>,
       task |-> 1] }

Descriptions == 1..MaxDesc

\* the name of the i-th skill of a store written by i adds of a function f
PersistedName(i) == IF i = 1 THEN <<"f">> ELSE VersionedName(<<"f">>, i)

PersistedEntry(i) ==
    [code |-> Header(PersistedName(i)) \o <<"x">>, dependencies |-> <<>>,
     task |-> 1, description |-> i]

PersistedMap(n) ==
    [nm \in {PersistedName(i) : i \in 1..n} |->
        PersistedEntry(CHOOSE i \in 1..n : PersistedName(i) = nm)]

PersistedIndex(n) ==
    [nm \in {PersistedName(i) : i \in 1..n} |->
        [text |-> PersistedMap(n)[nm].description, name |-> nm]]

Question(task) == <<"Q", task>>

PersistedQa(n) == [q \in {Question(t) : t \in 1..n} |-> "a1"]

PersistedQaIndex(n) == [i \in 1..n |-> Question(i)]

\* retrieval_top_k=5, the default of VoyagerProceduralMem.__init__
DefaultTopK == 5

NoOp ==
    [op |-> "none", payload |-> [name |-> <<>>, code |-> <<>>, dependencies |-> <<>>, task |-> 0],
     desc |-> 0, dedup |-> FALSE, ret |-> NoneVal, query |-> 0, docs |-> <<>>,
     entries |-> <<>>, queried |-> FALSE, after |-> NoneVal]

\* append_dependencies is not called in this behaviour
NoCall ==
    /\ fn_str_map_list = <<>>
    /\ parsed_result = [program_code |-> <<>>, program_name |-> <<>>, dependencies |-> <<>>,
                        full_code |-> NoneVal]
    /\ visited = {}
    /\ dependent_code = <<>>
    /\ pc = "idle"
    /\ called_with = <<>>
    /\ discovered = <<>>

\* the ledgers of a curriculum module that records no outcome in this behaviour
NoLedger ==
    /\ completed_tasks = <<>>
    /\ failed_tasks = <<>>
    /\ ledger_file = [completed |-> <<>>, failed |-> <<>>]
    /\ previous_task = 0

\* an agent that runs nothing: no call is in progress, rollout's locals as lines 106-108 set them
IdleAgent ==
    [pc |-> "idle", mode |-> "none", task |-> 0, use_public_tests |-> FALSE,
     max_task_attempts |-> 0, eval_later |-> FALSE, train |-> FALSE, public_tests |-> FALSE,
     use_critic |-> FALSE, use_critic_success |-> FALSE,
     i |-> 0, parsed |-> "empty", code |-> <<>>, obs |-> "", reward |-> FALSE,
     critic_out |-> [success |-> FALSE, critique |-> ""],
     context |-> "", violation |-> "", attempts |-> <<>>, rollouts |-> 0,
     critic |-> [asked |-> FALSE, parsed |-> FALSE, success |-> FALSE, critique |-> ""],
     calls |-> [retrieve |-> 0, gen_code |-> 0, step |-> 0, check_success |-> 0],
     exc |-> "", logged |-> 0, recorded |-> 0, ret |-> <<FALSE, "unset">>]

\* get_next_task has not been called
NoProposal ==
    [pc |-> "idle", excluded_names |-> {}, tries |-> 0, errors |-> <<>>, feedback |-> <<>>,
     response |-> NoneVal, ret |-> NoneVal]

\* no source is being analysed
NoAnalysis == [pc |-> "idle"]

NoAgent ==
    /\ agent = IdleAgent
    /\ output_files = <<>>
    /\ error_txt = <<>>
    /\ proposal = NoProposal
    /\ analysis = NoAnalysis

\* l is an add that stored an entry and returned its name
Stored(l) == l.op = "add" /\ l.ret # NoneVal /\ l.ret # AssertionError

(***************************************************************************)
(* Construction.                                                           *)
(***************************************************************************)
InitStore ==
    /\ obj \in {"skill", "curriculum"}
    /\ status = "new"
    /\ resume \in BOOLEAN
    /\ retrieval_top_k = DefaultTopK
    /\ \E i, j \in 0..MaxPersist :
          /\ pMap = PersistedMap(j)
          /\ pIdx = PersistedIndex(i)
          /\ pQa = PersistedQa(j)
          /\ pQaIdx = PersistedQaIndex(i)
    /\ fn_str_map = EmptyMap
    /\ vectordb = EmptyMap
    /\ qa_cache = EmptyMap
    /\ qa_vectordb = <<>>
    /\ last = NoOp
    /\ NoCall
    /\ NoLedger
    /\ NoAgent

\* the assert of VoyagerProceduralMem.__init__
SkillStoreSynced(db, map) == Count(db) = Count(map)

\* VoyagerProceduralMem.__init__ (with BaseVectorMem.__init__)
ConstructSkillLibrary ==
    /\ obj = "skill"
    /\ status = "new"
    /\ LET loaded == IF resume THEN pMap ELSE EmptyMap
       IN IF SkillStoreSynced(pIdx, loaded)
          THEN /\ status' = "ok"
               /\ fn_str_map' = loaded
               /\ vectordb' = pIdx
          ELSE /\ status' = "failed"
               /\ UNCHANGED <<fn_str_map, vectordb>>
    /\ UNCHANGED <<obj, resume, retrieval_top_k, pMap, pIdx, pQa, pQaIdx, qa_cache,
                   qa_vectordb, last>>
    /\ UNCHANGED depVars
    /\ UNCHANGED ledgerVars
    /\ UNCHANGED agentVars

\* load_prev without its assert
QaCacheSynced_NoCheck(db, cache) == TRUE

\* the assert of BaseCurriculumModule.load_prev
QaCacheSynced(db, cache) == Len(db) = Count(cache)

\* BaseCurriculumModule.__init__ (with load_prev when resume is set)
ConstructCurriculum ==
    /\ obj = "curriculum"
    /\ status = "new"
    /\ IF resume
       THEN IF QaCacheSynced(pQaIdx, pQa)
            THEN /\ status' = "ok"
                 /\ qa_cache' = pQa
                 /\ qa_vectordb' = pQaIdx
            ELSE /\ status' = "failed"
                 /\ UNCHANGED <<qa_cache, qa_vectordb>>
       ELSE /\ status' = "ok"
            /\ qa_cache' = EmptyMap
            /\ qa_vectordb' = pQaIdx
    /\ UNCHANGED <<obj, resume, retrieval_top_k, pMap, pIdx, pQa, pQaIdx, fn_str_map,
                   vectordb, last>>
    /\ UNCHANGED depVars
    /\ UNCHANGED ledgerVars
    /\ UNCHANGED agentVars

(***************************************************************************)
(* BaseVectorMem.add_code                                                  *)
(***************************************************************************)
\* a version loop that never looks for a free name
VersionLoop_NoVersioning(map, old_name, name, ver, code, prevent_duplicates) ==
    [skip |-> FALSE, name |-> old_name]

\* the while loop of add_code: the name the loop ends with, and whether it
\* ended by the early return of the duplicate check
RECURSIVE VersionLoop(_, _, _, _, _, _)
VersionLoop(map, old_name, name, ver, code, prevent_duplicates) ==
    IF name \notin DOMAIN map
    THEN [skip |-> FALSE, name |-> name]
    ELSE IF prevent_duplicates
            /\ code = Replace(map[name].code, Header(name), Header(old_name))
         THEN [skip |-> TRUE, name |-> name]
         ELSE VersionLoop(map, old_name, VersionedName(old_name, ver + 1), ver + 1,
                          code, prevent_duplicates)

\* the code stored as given, its header not renamed
StoredCode_NoRename(code, old_name, name) == code

\* the code add_code stores: renamed when the name was versioned
StoredCode(code, old_name, name) ==
    IF name # old_name THEN Replace(code, Header(old_name), Header(name)) ELSE code

\* what add_code returns on the early return of the duplicate check
DuplicateReturn(name) == NoneVal

\* what add_code does to the store, and what it returns (last.ret)
AddCodeToStore(p, description, prevent_duplicates) ==
    /\ LET r == VersionLoop(fn_str_map, p.name, p.name, 1, p.code, prevent_duplicates)
           entry == [code |-> StoredCode(p.code, p.name, r.name),
                     dependencies |-> p.dependencies,
                     task |-> p.task,
                     description |-> description]
           db == AddTexts(vectordb, description, r.name)
           map == Put(fn_str_map, r.name, entry)
           rec == [NoOp EXCEPT !.op = "add", !.payload = p, !.desc = description,
                               !.dedup = prevent_duplicates]
       IN IF r.skip
          THEN /\ last' = [rec EXCEPT !.ret = DuplicateReturn(r.name)]
               /\ UNCHANGED <<fn_str_map, vectordb, pMap, pIdx>>
          ELSE /\ vectordb' = db
               /\ fn_str_map' = map
               /\ IF Count(db) = Count(map)
                  THEN /\ pMap' = map
                       /\ pIdx' = db
                       /\ last' = [rec EXCEPT !.ret = r.name]
                  ELSE /\ last' = [rec EXCEPT !.ret = AssertionError]
                       /\ UNCHANGED <<pMap, pIdx>>

AddCode(p, description, prevent_duplicates) ==
    /\ obj = "skill"
    /\ status = "ok"
    /\ AddCodeToStore(p, description, prevent_duplicates)
    /\ UNCHANGED <<obj, status, resume, retrieval_top_k, pQa, pQaIdx, qa_cache, qa_vectordb>>
    /\ UNCHANGED depVars
    /\ UNCHANGED ledgerVars
    /\ UNCHANGED agentVars

(***************************************************************************)
(* BaseVectorMem.retrieve / retrieve_code                                  *)
(***************************************************************************)
\* k that is not capped by the number of indexed documents
EffectiveK_NoMin(db, k_new) == IF k_new # 0 THEN k_new ELSE retrieval_top_k

\* k of retrieve: min(count, k_new if k_new else retrieval_top_k)
EffectiveK(db, k_new) == Min(Count(db), IF k_new # 0 THEN k_new ELSE retrieval_top_k)

\* retrieve_code(query): retrieve with k_new = 0, then the entries of the documents' names
\* what retrieve_code returns (last.entries)
RetrieveFromStore(query) ==
    /\ LET k == EffectiveK(vectordb, 0)
       IN \E d \in (IF k # 0 THEN SimilaritySearch(vectordb, query, k) ELSE {<<>>}) :
             /\ \A i \in 1..Len(d) : vectordb[d[i]].name \in DOMAIN fn_str_map
             /\ last' = [NoOp EXCEPT !.op = "retrieve", !.query = query,
                                     !.docs = [i \in 1..Len(d) |-> vectordb[d[i]].name],
                                     !.entries = [i \in 1..Len(d) |-> fn_str_map[vectordb[d[i]].name]],
                                     !.queried = (k # 0),
                                     !.after = IF Stored(last) THEN last.ret ELSE NoneVal]

RetrieveCode(query) ==
    /\ obj = "skill"
    /\ status = "ok"
    /\ RetrieveFromStore(query)
    /\ UNCHANGED <<obj, status, resume, retrieval_top_k, pMap, pIdx, fn_str_map, vectordb,
                   pQa, pQaIdx, qa_cache, qa_vectordb>>
    /\ UNCHANGED depVars
    /\ UNCHANGED ledgerVars
    /\ UNCHANGED agentVars

(***************************************************************************)
(* BaseCurriculumModule.get_task_context                                   *)
(***************************************************************************)
Answers == {"a1", "a2"}

\* what get_task_context does to the QA cache
TaskContext(task) ==
    /\ LET question == Question(task)
       IN IF question \in DOMAIN qa_cache
          THEN /\ last' = [NoOp EXCEPT !.op = "context", !.query = task, !.queried = FALSE,
                                       !.entries = <<qa_cache[question]>>]
               /\ UNCHANGED <<qa_cache, qa_vectordb, pQa, pQaIdx>>
          ELSE \E answer \in Answers :
                  /\ qa_cache' = Put(qa_cache, question, answer)
                  /\ qa_vectordb' = Append(qa_vectordb, question)
                  /\ pQa' = qa_cache'
                  /\ pQaIdx' = qa_vectordb'
                  /\ last' = [NoOp EXCEPT !.op = "context", !.query = task, !.queried = TRUE,
                                          !.entries = <<answer>>]

GetTaskContext(task) ==
    /\ obj = "curriculum"
    /\ status = "ok"
    /\ TaskContext(task)
    /\ UNCHANGED <<obj, status, resume, retrieval_top_k, pMap, pIdx, fn_str_map, vectordb>>
    /\ UNCHANGED depVars
    /\ UNCHANGED ledgerVars
    /\ UNCHANGED agentVars

NextStore ==
    \/ ConstructSkillLibrary
    \/ ConstructCurriculum
    \/ /\ Count(fn_str_map) < MaxEntries
       /\ \E p \in Payloads, pd \in BOOLEAN : AddCode(p, Count(fn_str_map) + 1, pd)
    \/ RetrieveCode(1)
    \/ \E t \in 1..MaxTask : GetTaskContext(t)

SpecStore == InitStore /\ [][NextStore]_vars

(***************************************************************************)
(* The skill library resumed from a checkpoint it wrote, then adds and     *)
(* retrievals with varying descriptions, queries and top-k.                *)
(***************************************************************************)
RetrievalPayloads ==
    { [name |-> <<"f">>, code |-> <<"f", "(", "x">>, dependencies |-> <<>>, task |-> 1],
      [name |-> <<"g">>, code |-> <<"g", "(", "f", "(">>, dependencies |-> << <<"f">> >>,
       task |-> 1] }

InitRetrieve ==
    /\ obj = "skill"
    /\ status = "new"
    /\ resume = TRUE
    /\ retrieval_top_k \in 0..MaxTopK
    /\ \E n \in 0..MaxPersist :
          /\ pMap = PersistedMap(n)
          /\ pIdx = PersistedIndex(n)
    /\ pQa = EmptyMap
    /\ pQaIdx = <<>>
    /\ fn_str_map = EmptyMap
    /\ vectordb = EmptyMap
    /\ qa_cache = EmptyMap
    /\ qa_vectordb = <<>>
    /\ last = NoOp
    /\ NoCall
    /\ NoLedger
    /\ NoAgent

NextRetrieve ==
    \/ ConstructSkillLibrary
    \/ /\ Count(fn_str_map) < MaxIndexed
       /\ \E p \in RetrievalPayloads, d \in Descriptions, pd \in BOOLEAN : AddCode(p, d, pd)
    \/ \E q \in Descriptions : RetrieveCode(q)

SpecRetrieve == InitRetrieve /\ [][NextRetrieve]_vars

(***************************************************************************)
(* append_dependencies (utils/code_parse.py)                               *)
(***************************************************************************)
MaxEdges == 4       \* the candidate and the first table record up to this many dependencies in all

Reverse(s) == [i \in 1..Len(s) |-> s[Len(s) + 1 - i]]

\* sep.join(parts)
RECURSIVE Join(_, _)
Join(parts, sep) ==
    IF parts = <<>> THEN <<>>
    ELSE IF Len(parts) = 1 THEN parts[1]
    ELSE parts[1] \o sep \o Join(Tail(parts), sep)

\* "\n\n"
BlankLine == <<"\n", "\n">>

DepNames == {<<"a">>, <<"b">>, <<"c">>}

\* dependency lists as parse_ai_code records them: list(dependencies) of a set of names
DepLists ==
    UNION {{l \in [1..n -> DepNames] : \A i, j \in 1..n : i # j => l[i] # l[j]} :
              n \in 0..Cardinality(DepNames)}

Absent == <<"absent">>

SkillCode(name) == Header(name) \o <<")">>

CandidateCode == <<"p", "(", ")">>

\* a second table: another a, which calls b, and a b stored without the key 'dependencies'
SecondTable ==
    (<<"a">> :> [code |-> <<"a", "(", "2", ")">>, dependencies |-> << <<"b">> >>])
    @@ (<<"b">> :> [code |-> <<"b", "(", "2", ")">>])

\* the table in which name is recorded with the dependency list given[name]
TableOf(given) ==
    [name \in {n \in DepNames : given[n] # Absent} |->
        [code |-> SkillCode(name), dependencies |-> given[name]]]

RECURSIVE SumLen(_, _)
SumLen(given, names) ==
    IF names = {} THEN 0
    ELSE LET n == CHOOSE x \in names : TRUE
         IN (IF given[n] = Absent THEN 0 ELSE Len(given[n])) + SumLen(given, names \ {n})

InitDep ==
    /\ obj = "resolver"
    /\ status = "new"
    /\ resume = FALSE
    /\ retrieval_top_k = DefaultTopK
    /\ pMap = EmptyMap
    /\ pIdx = EmptyMap
    /\ pQa = EmptyMap
    /\ pQaIdx = <<>>
    /\ fn_str_map = EmptyMap
    /\ vectordb = EmptyMap
    /\ qa_cache = EmptyMap
    /\ qa_vectordb = <<>>
    /\ last = NoOp
    /\ \E deps \in DepLists, given \in [DepNames -> DepLists \cup {Absent}], tables \in 0..2 :
          /\ Len(deps) + SumLen(given, DepNames) <= MaxEdges
          /\ tables = 0 => \A n \in DepNames : given[n] = Absent
          /\ fn_str_map_list = CASE tables = 0 -> <<>>
                                 [] tables = 1 -> <<TableOf(given)>>
                                 [] tables = 2 -> <<TableOf(given), SecondTable>>
          /\ parsed_result = [program_code |-> CandidateCode, program_name |-> <<"p">>,
                              dependencies |-> deps, full_code |-> NoneVal]
          /\ called_with = deps
    /\ visited = {}
    /\ dependent_code = <<>>
    /\ pc = "call"
    /\ discovered = <<>>
    /\ NoLedger
    /\ NoAgent

\* lines 168-171: code, dependencies (the candidate's own list), visited, dependent_code
Begin ==
    /\ pc = "call"
    /\ visited' = {}
    /\ dependent_code' = <<>>
    /\ pc' = "loop"
    /\ UNCHANGED <<fn_str_map_list, parsed_result, called_with, discovered>>
    /\ UNCHANGED storeVars
    /\ UNCHANGED ledgerVars
    /\ UNCHANGED agentVars

\* a loop that expands a name every time it is popped
Unvisited_Always(call_fn, seen) == TRUE

\* if call_fn not in visited
Unvisited(call_fn, seen) == call_fn \notin seen

\* a lookup in which the last table that holds call_fn wins
FirstTable_Last(tables, call_fn) ==
    IF \E i \in 1..Len(tables) : call_fn \in DOMAIN tables[i]
    THEN CHOOSE i \in 1..Len(tables) :
            /\ call_fn \in DOMAIN tables[i]
            /\ \A j \in (i + 1)..Len(tables) : call_fn \notin DOMAIN tables[j]
    ELSE 0

\* the for loop over fn_str_map_list: the index of the first table that holds call_fn, 0 if none does
FirstTable(tables, call_fn) ==
    IF \E i \in 1..Len(tables) : call_fn \in DOMAIN tables[i]
    THEN CHOOSE i \in 1..Len(tables) :
            /\ call_fn \in DOMAIN tables[i]
            /\ \A j \in 1..(i - 1) : call_fn \notin DOMAIN tables[j]
    ELSE 0

\* an expansion that never follows the dependencies of a found skill
Recorded_None(entry) == <<>>

\* the dependencies a found entry adds to the queue
Recorded(entry) == IF "dependencies" \in DOMAIN entry THEN entry.dependencies ELSE <<>>

\* a miss that ends the loop
AfterMiss_Stop(popped) == <<>>

\* the else of the for loop: a warning is logged, the while loop goes on with the rest
AfterMiss(popped) == popped

\* one iteration of `while dependencies` (lines 172-184)
Iterate ==
    /\ pc = "loop"
    /\ parsed_result.dependencies # <<>>
    /\ LET call_fn == Head(parsed_result.dependencies)
           popped == Tail(parsed_result.dependencies)
           t == FirstTable(fn_str_map_list, call_fn)
       IN IF Unvisited(call_fn, visited) /\ t # 0
          THEN /\ dependent_code' = Append(dependent_code, fn_str_map_list[t][call_fn].code)
               /\ parsed_result' = [parsed_result EXCEPT !.dependencies =
                                        popped \o Recorded(fn_str_map_list[t][call_fn])]
               /\ visited' = visited \cup {call_fn}
               /\ discovered' = Append(discovered, call_fn)
          ELSE /\ parsed_result' = [parsed_result EXCEPT !.dependencies =
                                        IF Unvisited(call_fn, visited)
                                        THEN AfterMiss(popped) ELSE popped]
               /\ UNCHANGED <<dependent_code, visited, discovered>>
    /\ UNCHANGED <<fn_str_map_list, pc, called_with>>
    /\ UNCHANGED storeVars
    /\ UNCHANGED ledgerVars
    /\ UNCHANGED agentVars

\* the collected code left in the order it was found
Assemble_NoReverse(collected, code) == Append(collected, code)

\* dependent_code.reverse(); dependent_code.append(code)
Assemble(collected, code) == Append(Reverse(collected), code)

\* the loop has ended (lines 186-192): assemble, join, store and return full_code
Return ==
    /\ pc = "loop"
    /\ parsed_result.dependencies = <<>>
    /\ dependent_code' = Assemble(dependent_code, parsed_result.program_code)
    /\ parsed_result' = [parsed_result EXCEPT !.full_code = Join(dependent_code', BlankLine)]
    /\ pc' = "done"
    /\ UNCHANGED <<fn_str_map_list, visited, called_with, discovered>>
    /\ UNCHANGED storeVars
    /\ UNCHANGED ledgerVars
    /\ UNCHANGED agentVars

NextDep == Begin \/ Iterate \/ Return

SpecDep == InitDep /\ [][NextDep]_vars

\* the call runs on: a loop iteration or the return that can be taken is taken
SpecDepFair == InitDep /\ [][NextDep]_vars /\ WF_vars(NextDep)

(***************************************************************************)
(* BaseCurriculumModule.update_exploration_progress / clean_up_tasks       *)
(***************************************************************************)
MaxLedger == 4      \* the two ledgers hold up to this many entries in all before an outcome is recorded

LedgerTasks == 1..(MaxTask + 1)

\* the dedup loop of clean_up_tasks (lines 112-114)
RECURSIVE Dedup(_, _)
Dedup(tasks, updated) ==
    IF tasks = <<>> THEN updated
    ELSE Dedup(Tail(tasks),
               IF \E i \in 1..Len(updated) : updated[i] = Head(tasks)
               THEN updated ELSE Append(updated, Head(tasks)))

\* list.remove(x): the first occurrence of x taken out
RECURSIVE Remove(_, _)
Remove(list, x) ==
    IF list = <<>> THEN <<>>
    ELSE IF Head(list) = x THEN Tail(list)
    ELSE <<Head(list)>> \o Remove(Tail(list), x)

\* a cleanup that removes one occurrence
RemoveWhileIn_Once(list, task) == Remove(list, task)

\* while task in updated_failed_tasks: updated_failed_tasks.remove(task)
RECURSIVE RemoveWhileIn(_, _)
RemoveWhileIn(list, task) ==
    IF \E i \in 1..Len(list) : list[i] = task
    THEN RemoveWhileIn(Remove(list, task), task)
    ELSE list

\* a cleanup that leaves the failed ledger as it is
RemoveCompleted_Keep(failed, completed) == failed

\* the loop over updated_completed_tasks (lines 117-119)
RECURSIVE RemoveCompleted(_, _)
RemoveCompleted(failed, completed) ==
    IF completed = <<>> THEN failed
    ELSE RemoveCompleted(RemoveWhileIn(failed, Head(completed)), Tail(completed))

InitLedger ==
    /\ obj = "ledger"
    /\ status = "ok"
    /\ resume = TRUE
    /\ retrieval_top_k = DefaultTopK
    /\ pMap = EmptyMap
    /\ pIdx = EmptyMap
    /\ pQa = EmptyMap
    /\ pQaIdx = <<>>
    /\ fn_str_map = EmptyMap
    /\ vectordb = EmptyMap
    /\ qa_cache = EmptyMap
    /\ qa_vectordb = <<>>
    /\ last = NoOp
    /\ NoCall
    /\ \E c, f \in 0..MaxLedger :
          /\ c + f <= MaxLedger
          /\ completed_tasks \in [1..c -> LedgerTasks]
          /\ failed_tasks \in [1..f -> LedgerTasks]
    /\ ledger_file = [completed |-> completed_tasks, failed |-> failed_tasks]
    /\ previous_task \in {0} \cup LedgerTasks
    /\ NoAgent

\* what update_exploration_progress(task, success) does, with the clean_up_tasks it ends
\* in (VoyagerCurriculumModule: the base method, then previous_task)
RecordOutcome(task, success) ==
    /\ LET completed == IF success THEN Append(completed_tasks, task) ELSE completed_tasks
           failed == IF success THEN failed_tasks ELSE Append(failed_tasks, task)
           updated_completed_tasks == Dedup(completed, <<>>)
           updated_failed_tasks == RemoveCompleted(failed, updated_completed_tasks)
       IN /\ completed_tasks' = updated_completed_tasks
          /\ failed_tasks' = updated_failed_tasks
          /\ ledger_file' = [completed |-> updated_completed_tasks,
                             failed |-> updated_failed_tasks]
    /\ previous_task' = task
    /\ last' = [NoOp EXCEPT !.op = "record", !.query = task, !.queried = success]

UpdateExplorationProgress(task, success) ==
    /\ obj = "ledger"
    /\ RecordOutcome(task, success)
    /\ UNCHANGED <<obj, status, resume, retrieval_top_k, pMap, pIdx, fn_str_map, vectordb,
                   pQa, pQaIdx, qa_cache, qa_vectordb>>
    /\ UNCHANGED depVars
    /\ UNCHANGED agentVars

NextLedger ==
    /\ Len(completed_tasks) + Len(failed_tasks) <= MaxLedger
    /\ \E task \in LedgerTasks, success \in BOOLEAN : UpdateExplorationProgress(task, success)

SpecLedger == InitLedger /\ [][NextLedger]_vars

(***************************************************************************)
(* The QA cache of the curriculum module: get_task_context and run_qa      *)
(* (SpecQa).  Distances are in hundredths.                                 *)
(***************************************************************************)
MaxQuestions == 2   \* run_qa gets up to this many questions from run_ask_questions
MaxCached == 3      \* SpecQa answers while the question index stays within this many entries

Tasks == 1..MaxTask

\* docs_and_scores[0][1] < 0.05
ClosenessThreshold == 5

\* another wording of the question of a task
Paraphrase(task) == <<"P", task>>

Questions == {Question(t) : t \in Tasks} \cup {Paraphrase(t) : t \in Tasks}

\* L2 distance of the embeddings: 0 for the same text, small for two wordings of one
\* question, large for questions of different tasks
QaDistance(a, b) == IF a = b THEN 0 ELSE IF a[2] = b[2] THEN 3 ELSE 100

\* similarity_search_with_score(question, k=1): the indexed questions nearest to q
NearestQuestions(db, q) ==
    {db[i] : i \in {j \in 1..Len(db) :
                       \A k \in 1..Len(db) : QaDistance(q, db[j]) <= QaDistance(q, db[k])}}

\* a closeness test that accepts every nearest question
Close_Always(q, d) == TRUE

\* if docs_and_scores and docs_and_scores[0][1] < 0.05
Close(q, d) == QaDistance(q, d) < ClosenessThreshold

QuestionLists ==
    UNION {[1..n -> Questions] : n \in 0..MaxQuestions}

\* the loop of run_qa over questions_new (lines 166-185): every way it can end, with the
\* cache and the index it leaves, the questions and answers it returns, the questions it
\* sent to run_answer_questions, and whether an assert failed
\* what run_ask_questions asks about the observation in get_next_task
ObservationQuestions == { <<>>, <<Question(1)>> }

RECURSIVE QaOutcomes(_, _, _)
QaOutcomes(cache, db, qs) ==
    IF qs = <<>>
    THEN {[cache |-> cache, db |-> db, questions |-> <<>>, answers |-> <<>>,
           asked |-> <<>>, error |-> FALSE]}
    ELSE LET q == Head(qs)
             near == IF Len(db) > 0 THEN {d \in NearestQuestions(db, q) : Close(q, d)} ELSE {}
             failed(asked) == [cache |-> cache, db |-> db, questions |-> <<>>,
                               answers |-> <<>>, asked |-> asked, error |-> TRUE]
             then(r, question, answer, asked) ==
                 [r EXCEPT !.questions = IF r.error THEN <<>> ELSE <<question>> \o @,
                           !.answers = IF r.error THEN <<>> ELSE <<answer>> \o @,
                           !.asked = asked \o @]
         IN IF near # {}
            THEN UNION { IF d \in DOMAIN cache
                         THEN {then(r, d, cache[d], <<>>) : r \in QaOutcomes(cache, db, Tail(qs))}
                         ELSE {failed(<<>>)} : d \in near }
            ELSE IF q \in DOMAIN cache
                 THEN {failed(<<q>>)}
                 ELSE UNION { {then(r, q, a, <<q>>) :
                                  r \in QaOutcomes(Put(cache, q, a), Append(db, q), Tail(qs))} :
                              a \in Answers }

\* what run_qa does to the QA cache, and what it returns (last)
RunQaOnCache(qs) ==
    \E out \in QaOutcomes(qa_cache, qa_vectordb, qs) :
       /\ qa_cache' = out.cache
       /\ qa_vectordb' = out.db
       /\ pQa' = IF out.cache # qa_cache THEN out.cache ELSE pQa
       /\ pQaIdx' = IF out.db # qa_vectordb THEN out.db ELSE pQaIdx
       /\ last' = [NoOp EXCEPT !.op = "run_qa", !.payload = qs, !.docs = out.questions,
                               !.entries = out.answers, !.after = out.asked,
                               !.queried = (out.asked # <<>>),
                               !.ret = IF out.error THEN AssertionError ELSE NoneVal]

RunQa(qs) ==
    /\ obj = "curriculum"
    /\ status = "ok"
    /\ RunQaOnCache(qs)
    /\ UNCHANGED <<obj, status, resume, retrieval_top_k, pMap, pIdx, fn_str_map, vectordb>>
    /\ UNCHANGED depVars
    /\ UNCHANGED ledgerVars
    /\ UNCHANGED agentVars

\* the checkpoint directory holds a QA cache file of j and a question index of i entries
InitQa ==
    /\ obj = "curriculum"
    /\ status = "new"
    /\ resume \in BOOLEAN
    /\ retrieval_top_k = DefaultTopK
    /\ pMap = EmptyMap
    /\ pIdx = EmptyMap
    /\ \E i, j \in 0..MaxTask :
          /\ pQa = PersistedQa(j)
          /\ pQaIdx = PersistedQaIndex(i)
    /\ fn_str_map = EmptyMap
    /\ vectordb = EmptyMap
    /\ qa_cache = EmptyMap
    /\ qa_vectordb = <<>>
    /\ last = NoOp
    /\ NoCall
    /\ NoLedger
    /\ NoAgent

NextQa ==
    \/ ConstructCurriculum
    \/ /\ Len(qa_vectordb) < MaxCached
       /\ \E t \in Tasks : GetTaskContext(t)
    \/ \E qs \in QuestionLists :
          /\ Len(qa_vectordb) + Len(qs) <= MaxCached
          /\ RunQa(qs)

SpecQa == InitQa /\ [][NextQa]_vars

(***************************************************************************)
(* VoyagerAgent: rollout, train_step, test_one (SpecAgent).  One step per  *)
(* collaborator call; append_dependencies runs as Begin, Iterate, Return.  *)
(***************************************************************************)
MaxAttempts == 2    \* max_task_attempts is in 1..MaxAttempts

\* what gen_code parses out of the model's answer (parse_ai_code): name, code, dependencies
Candidates ==
    { [program_name |-> <<"f">>, program_code |-> <<"f", "(", "x">>, dependencies |-> <<>>],
      [program_name |-> <<"g">>, program_code |-> <<"g", "(", "f", "(">>,
       dependencies |-> << <<"f">> >>] }

\* gen_code's result when every parse try failed: lm_reason's fallback, a falsy value
NoCandidate == {"none", "empty"}

\* the messages of the exceptions parse_ai_code raises
CouldNotParse == "could not parse code to AST"

NoFunctionsFound == "Error: No functions found. please try again"

NoMainFunctions == "could not find any main functions (those without parent)"

HelpersFirst == "Your response should declare helper functions first, then the main function last."

\* what the last parse try of a gen_code without a candidate raised
Violations == {CouldNotParse, NoFunctionsFound}

\* what task_env.step returns: feedback and reward
Observations == {[obs |-> "passed", reward |-> TRUE], [obs |-> "failed", reward |-> FALSE]}

Critiques == {"", "fix"}

\* how the agent is run: training; testing; testing with execution left for later;
\* testing on the public tests
RunModes ==
    { [train |-> TRUE, eval_later |-> FALSE, public_tests |-> FALSE],
      [train |-> FALSE, eval_later |-> FALSE, public_tests |-> FALSE],
      [train |-> FALSE, eval_later |-> TRUE, public_tests |-> FALSE],
      [train |-> FALSE, eval_later |-> TRUE, public_tests |-> TRUE] }

\* the critic's two switches: the model judges success, the model only writes the
\* critique of a failed run, the reward alone decides
CriticModes ==
    { [use_critic |-> TRUE, use_critic_success |-> TRUE],
      [use_critic |-> TRUE, use_critic_success |-> FALSE],
      [use_critic |-> FALSE, use_critic_success |-> FALSE] }

\* the ledgers the agent starts with: of a new curriculum, and of one that recorded
\* a failure of task 1 and then a success of task 2
PastLedgers ==
    { [completed |-> <<>>, failed |-> <<>>, previous_task |-> 0],
      [completed |-> <<2>>, failed |-> <<1>>, previous_task |-> 2] }

\* what an earlier rollout left behind when it returned: nothing (no earlier rollout),
\* or the code, feedback and critique of its last attempt
EarlierRollouts ==
    { [rollouts |-> 0, code |-> <<>>, obs |-> "", critic_out |-> [success |-> FALSE, critique |-> ""]],
      [rollouts |-> 1, code |-> <<"f", "(", "x">>, obs |-> "failed",
       critic_out |-> [success |-> FALSE, critique |-> "fix"]] }

\* the rollout's parsed_result when it is not a candidate
BlankResult ==
    [program_code |-> <<>>, program_name |-> <<>>, dependencies |-> <<>>, full_code |-> NoneVal]

\* the agent, constructed over a stored library of one of the given sizes and one of
\* the given ledgers, after one of the given earlier rollouts
ConstructAgent(sizes, ledgers, earlier_rollouts) ==
    /\ obj = "agent"
    /\ status = "ok"
    /\ resume = TRUE
    /\ retrieval_top_k = DefaultTopK
    /\ \E n \in sizes :
          /\ pMap = PersistedMap(n)
          /\ pIdx = PersistedIndex(n)
          /\ fn_str_map = PersistedMap(n)
          /\ vectordb = PersistedIndex(n)
    /\ pQa = PersistedQa(1)
    /\ pQaIdx = PersistedQaIndex(1)
    /\ qa_cache = PersistedQa(1)
    /\ qa_vectordb = PersistedQaIndex(1)
    /\ last = NoOp
    /\ NoCall
    /\ \E past \in ledgers :
          /\ completed_tasks = past.completed
          /\ failed_tasks = past.failed
          /\ ledger_file = [completed |-> past.completed, failed |-> past.failed]
          /\ previous_task = past.previous_task
    /\ \E m \in 1..MaxAttempts, run \in RunModes, critic \in CriticModes,
          earlier \in earlier_rollouts :
          agent = [IdleAgent EXCEPT !.max_task_attempts = m, !.eval_later = run.eval_later,
                                    !.train = run.train, !.public_tests = run.public_tests,
                                    !.use_critic = critic.use_critic,
                                    !.use_critic_success = critic.use_critic_success,
                                    !.rollouts = earlier.rollouts, !.code = earlier.code,
                                    !.obs = earlier.obs, !.critic_out = earlier.critic_out]
    /\ output_files = EmptyMap
    /\ error_txt = <<>>
    /\ proposal = NoProposal
    /\ analysis = NoAnalysis

\* a new agent over a library and a ledger that earlier runs may have written
InitAgent ==
    ConstructAgent({0, 1}, PastLedgers, {e \in EarlierRollouts : e.rollouts = 0})

\* an agent that may have run a rollout before, over a library of one skill
InitRollout ==
    ConstructAgent({1}, {l \in PastLedgers : l.previous_task = 0}, EarlierRollouts)

\* a call that starts with what the previous call left in its locals
Fresh_KeepsLocals(mode, task, public) ==
    [agent EXCEPT !.pc = "reset", !.mode = mode, !.task = task, !.use_public_tests = public,
                  !.rollouts = @ + 1]

\* a call starts: the locals of the previous call are gone
Fresh(mode, task, public) ==
    [IdleAgent EXCEPT !.max_task_attempts = agent.max_task_attempts,
                      !.rollouts = agent.rollouts + 1,
                      !.eval_later = agent.eval_later, !.train = agent.train,
                      !.public_tests = agent.public_tests, !.use_critic = agent.use_critic,
                      !.use_critic_success = agent.use_critic_success,
                      !.pc = "reset", !.mode = mode, !.task = task, !.use_public_tests = public]

\* train_step, line 147: get_next_task runs run_qa and returns a task that passed
\* response_validation (perform_task_assertions: not completed, not the previous task;
\* no name is excluded, so nothing is renamed); rollout is called
TrainStep(task, qs) ==
    /\ obj = "agent"
    /\ agent.pc = "idle"
    /\ \A k \in 1..Len(completed_tasks) : completed_tasks[k] # task
    /\ task # previous_task
    /\ RunQaOnCache(qs)
    /\ agent' = IF last'.ret = AssertionError
                THEN [agent EXCEPT !.pc = "raised", !.mode = "train_step",
                                   !.exc = "AssertionError"]
                ELSE Fresh("train_step", task, FALSE)
    /\ UNCHANGED <<output_files, error_txt, proposal, analysis>>
    /\ UNCHANGED <<obj, status, resume, retrieval_top_k, pMap, pIdx, fn_str_map, vectordb>>
    /\ UNCHANGED depVars
    /\ UNCHANGED ledgerVars

\* test_one(full_task): rollout(full_task, use_public_tests=self.use_public_tests)
TestOne(task) ==
    /\ obj = "agent"
    /\ agent.pc = "idle"
    /\ agent' = Fresh("test_one", task, agent.public_tests)
    /\ UNCHANGED <<output_files, error_txt, proposal, analysis>>
    /\ UNCHANGED storeVars
    /\ UNCHANGED depVars
    /\ UNCHANGED ledgerVars

\* rollout, lines 104-110: reset (set_context asks get_task_context), then the locals
Reset ==
    /\ agent.pc = "reset"
    /\ TaskContext(agent.task)
    /\ agent' = [agent EXCEPT !.pc = "for", !.context = last'.entries[1]]
    /\ UNCHANGED <<obj, status, resume, retrieval_top_k, pMap, pIdx, fn_str_map, vectordb>>
    /\ UNCHANGED <<output_files, error_txt, proposal, analysis>>
    /\ UNCHANGED depVars
    /\ UNCHANGED ledgerVars

\* a collaborator raised inside the try: control goes to the except clause
Raised(a, who) == [a EXCEPT !.pc = "except", !.exc = who]

\* what an attempt was called with and what its collaborators returned: the argument of
\* retrieve_for_coding, the arguments of gen_code, and the results of gen_code, step and
\* check_success
NewAttempt(a) ==
    [cue |-> <<a.context, a.critic_out.critique>>,
     gen_code |-> FALSE, prev_code |-> <<>>, obs |-> "", critique |-> "",
     parsed |-> "pending", violation |-> "", program_code |-> <<>>,
     step |-> FALSE, env_feedback |-> "",
     check_success |-> FALSE, critic_out |-> [success |-> FALSE, critique |-> ""]]

\* gen_code(retrieved, code, obs, critic_out, self.context) is called in the attempt
GenCodeCalled(a) ==
    [a EXCEPT !.attempts[Len(a.attempts)].gen_code = TRUE,
              !.attempts[Len(a.attempts)].prev_code = a.code,
              !.attempts[Len(a.attempts)].obs = a.obs,
              !.attempts[Len(a.attempts)].critique = a.critic_out.critique]

\* lines 113-117: the next attempt, if any, starts with retrieve_for_coding
RetrieveForCoding ==
    /\ agent.pc = "for"
    /\ agent.i < agent.max_task_attempts
    /\ LET a == [agent EXCEPT !.i = @ + 1, !.calls.retrieve = @ + 1,
                              !.attempts = Append(@, NewAttempt(agent))]
       IN \/ /\ RetrieveFromStore(agent.task)
             /\ agent' = [a EXCEPT !.pc = "gen_code"]
          \/ /\ agent' = Raised(a, "retrieve_for_coding")
             /\ UNCHANGED last
    /\ UNCHANGED <<obj, status, resume, retrieval_top_k, pMap, pIdx, fn_str_map, vectordb,
                   pQa, pQaIdx, qa_cache, qa_vectordb>>
    /\ UNCHANGED <<output_files, error_txt, proposal, analysis>>
    /\ UNCHANGED depVars
    /\ UNCHANGED ledgerVars

\* the for statement after an attempt that did not break: the next attempt, or the loop
\* ends when range(max_task_attempts) is used up
NextAttempt(a) == IF a.i < a.max_task_attempts THEN "for" ELSE "log_rollout"

\* an attempt without a candidate that takes the violation for the critique
NoCandidateAttempt_Critique(a, none, violation) ==
    [a EXCEPT !.pc = NextAttempt(a), !.parsed = none, !.violation = violation,
              !.critic_out.critique = violation,
              !.attempts[Len(a.attempts)].parsed = none,
              !.attempts[Len(a.attempts)].violation = violation]

\* lines 119-120: parsed_result is falsy, the body of the if is skipped
NoCandidateAttempt(a, none, violation) ==
    [a EXCEPT !.pc = NextAttempt(a), !.parsed = none, !.violation = violation,
              !.attempts[Len(a.attempts)].parsed = none,
              !.attempts[Len(a.attempts)].violation = violation]

\* lines 119-122: gen_code; a candidate gives code and the call of append_dependencies
\* with get_fn_maps(), no candidate leaves the attempt at that
GenCode ==
    /\ agent.pc = "gen_code"
    /\ LET a == GenCodeCalled([agent EXCEPT !.calls.gen_code = @ + 1])
       IN \/ \E c \in Candidates :
                /\ agent' = [a EXCEPT !.pc = "append_dependencies", !.parsed = "dict",
                                      !.code = c.program_code,
                                      !.attempts[Len(a.attempts)].parsed = "dict",
                                      !.attempts[Len(a.attempts)].program_code = c.program_code]
                /\ parsed_result' = [program_code |-> c.program_code,
                                     program_name |-> c.program_name,
                                     dependencies |-> c.dependencies, full_code |-> NoneVal]
                /\ fn_str_map_list' = <<fn_str_map>>
                /\ called_with' = c.dependencies
                /\ pc' = "call"
                /\ visited' = {}
                /\ dependent_code' = <<>>
                /\ discovered' = <<>>
          \/ \E none \in NoCandidate, violation \in Violations :
                /\ agent' = NoCandidateAttempt(a, none, violation)
                /\ parsed_result' = BlankResult
                /\ UNCHANGED <<fn_str_map_list, visited, dependent_code, pc, called_with,
                               discovered>>
          \/ /\ agent' = Raised(a, "gen_code")
             /\ UNCHANGED depVars
    /\ UNCHANGED <<output_files, error_txt, proposal, analysis>>
    /\ UNCHANGED storeVars
    /\ UNCHANGED ledgerVars

\* the resolver's variables after its result was taken
Resolved ==
    /\ pc' = "idle"
    /\ fn_str_map_list' = <<>>
    /\ visited' = {}
    /\ dependent_code' = <<>>
    /\ called_with' = <<>>
    /\ discovered' = <<>>
    /\ UNCHANGED parsed_result

\* a rollout that never leaves execution for later
DeferredMode_Never(a) == FALSE

\* if self.eval_later and not self.train and not use_public_tests
DeferredMode(a) == a.eval_later /\ ~a.train /\ ~a.use_public_tests

\* lines 124-125: execution is left for later, the loop breaks
Deferred ==
    /\ agent.pc = "append_dependencies"
    /\ pc = "done"
    /\ DeferredMode(agent)
    /\ agent' = [agent EXCEPT !.pc = "log_rollout"]
    /\ Resolved
    /\ UNCHANGED <<output_files, error_txt, proposal, analysis>>
    /\ UNCHANGED storeVars
    /\ UNCHANGED ledgerVars

\* line 127: task_env.step(full_code, use_public_tests)
Step ==
    /\ agent.pc = "append_dependencies"
    /\ pc = "done"
    /\ ~DeferredMode(agent)
    /\ LET a == [agent EXCEPT !.calls.step = @ + 1]
       IN \/ \E o \in Observations :
                agent' = [a EXCEPT !.pc = "check_success", !.obs = o.obs, !.reward = o.reward,
                                   !.attempts[Len(a.attempts)].step = TRUE,
                                   !.attempts[Len(a.attempts)].env_feedback = o.obs]
          \/ agent' = Raised(a, "step")
    /\ Resolved
    /\ UNCHANGED <<output_files, error_txt, proposal, analysis>>
    /\ UNCHANGED storeVars
    /\ UNCHANGED ledgerVars

\* check_success asks the critic: (not reward and self.use_critic) or self.use_critic_success
Consulted(reward, use_critic, use_critic_success) ==
    (~reward /\ use_critic) \/ use_critic_success

\* what happened at the critic: it was not asked; it answered with a Critique; none of
\* its answers could be parsed
CriticAnswers(reward, use_critic, use_critic_success) ==
    IF Consulted(reward, use_critic, use_critic_success)
    THEN { [asked |-> TRUE, parsed |-> TRUE, success |-> s, critique |-> c] :
              s \in BOOLEAN, c \in Critiques }
         \cup { [asked |-> TRUE, parsed |-> FALSE, success |-> FALSE, critique |-> ""] }
    ELSE { [asked |-> FALSE, parsed |-> FALSE, success |-> FALSE, critique |-> ""] }

\* a check_success that always returns the critic's verdict
CriticOut_Verdict(reward, use_critic_success, answer) ==
    IF ~answer.asked THEN [success |-> reward, critique |-> ""]
    ELSE [success |-> answer.success, critique |-> answer.critique]

\* CriticModule.check_success: what it returns; lm_reason returns the parsed Critique,
\* or the fallback {'success': False, 'critique': ""} when no answer could be parsed
CriticOut(reward, use_critic_success, answer) ==
    IF ~answer.asked THEN [success |-> reward, critique |-> ""]
    ELSE [success |-> IF use_critic_success THEN answer.success ELSE reward,
          critique |-> answer.critique]

\* CriticModule.check_success: what it can return for a reward
Verdicts(reward, use_critic, use_critic_success) ==
    { CriticOut(reward, use_critic_success, answer) :
         answer \in CriticAnswers(reward, use_critic, use_critic_success) }

\* a loop that goes on to the next attempt whatever the critic says
AfterCritique_NoBreak(a, v) == NextAttempt(a)

\* lines 134-135: if critic_out['success']: break
AfterCritique(a, v) == IF v.success THEN "log_rollout" ELSE NextAttempt(a)

\* lines 129-135: check_success, process_transition (a no-op), break on success
CheckSuccess ==
    /\ agent.pc = "check_success"
    /\ LET a == [agent EXCEPT !.calls.check_success = @ + 1]
       IN \/ \E answer \in CriticAnswers(agent.reward, agent.use_critic,
                                          agent.use_critic_success) :
                \E v \in {CriticOut(agent.reward, agent.use_critic_success, answer)} :
                   agent' = [a EXCEPT !.critic_out = v, !.critic = answer,
                                      !.pc = AfterCritique(a, v),
                                      !.attempts[Len(a.attempts)].check_success = TRUE,
                                      !.attempts[Len(a.attempts)].critic_out = v]
          \/ agent' = Raised(a, "check_success")
    /\ UNCHANGED <<output_files, error_txt, proposal, analysis>>
    /\ UNCHANGED storeVars
    /\ UNCHANGED depVars
    /\ UNCHANGED ledgerVars

\* lines 136-137: except Exception: handle_rollout_error appends to error.txt
HandleRolloutError ==
    /\ agent.pc = "except"
    /\ error_txt' = Append(error_txt, [task_id |-> agent.task, error |-> agent.exc])
    /\ agent' = [agent EXCEPT !.pc = "log_rollout"]
    /\ UNCHANGED <<output_files, proposal, analysis>>
    /\ UNCHANGED storeVars
    /\ UNCHANGED depVars
    /\ UNCHANGED ledgerVars

\* the record log_rollout dumps to <mode>/<task_id>/output.json
RolloutRecord(a, result) ==
    [env_feedback |-> a.obs,
     code |-> IF a.parsed = "dict" THEN result.program_code ELSE <<>>,
     full_code |-> IF a.parsed = "dict" /\ result.full_code # NoneVal
                   THEN result.full_code ELSE <<>>,
     task_id |-> a.task,
     success |-> a.critic_out.success,
     critique |-> a.critic_out.critique]

\* lines 139-140: log_rollout, then return (success, parsed_result), which is what
\* test_one returns; parsed_result.get raises AttributeError when parsed_result is None
LogRollout ==
    /\ agent.pc = "log_rollout"
    /\ IF agent.parsed = "none"
       THEN /\ agent' = [agent EXCEPT !.pc = "raised", !.exc = "AttributeError"]
            /\ UNCHANGED output_files
       ELSE /\ output_files' = Put(output_files,
                                   <<IF agent.train THEN "train" ELSE "test", agent.task>>,
                                   RolloutRecord(agent, parsed_result))
            /\ agent' = [agent EXCEPT !.pc = "returned", !.logged = @ + 1,
                                      !.ret = <<agent.critic_out.success, agent.parsed>>]
    /\ UNCHANGED <<error_txt, proposal, analysis>>
    /\ UNCHANGED storeVars
    /\ UNCHANGED depVars
    /\ UNCHANGED ledgerVars

\* a caller that archives the candidate of every successful rollout
Archives_AnyCaller(a) == a.ret[1]

\* train_step, lines 149-151: the caller of rollout is train_step, and `if success:`
Archives(a) == a.mode = "train_step" /\ a.ret[1]

\* train_step, lines 151-153: gen_code_desc and add_skill of the accepted candidate
AddSkill(description) ==
    /\ agent.pc = "returned"
    /\ Archives(agent)
    /\ AddCodeToStore([name |-> parsed_result.program_name, code |-> parsed_result.program_code,
                       dependencies |-> parsed_result.dependencies, task |-> agent.task],
                      description, FALSE)
    /\ agent' = [agent EXCEPT !.pc = "update_exploration_progress"]
    /\ UNCHANGED <<obj, status, resume, retrieval_top_k, pQa, pQaIdx, qa_cache, qa_vectordb>>
    /\ UNCHANGED <<output_files, error_txt, proposal, analysis>>
    /\ UNCHANGED depVars
    /\ UNCHANGED ledgerVars

\* train_step, line 155: update_exploration_progress(self.task, success)
UpdateProgress ==
    /\ agent.mode = "train_step"
    /\ \/ agent.pc = "update_exploration_progress"
       \/ agent.pc = "returned" /\ ~agent.ret[1]
    /\ RecordOutcome(agent.task, agent.ret[1])
    /\ agent' = [agent EXCEPT !.pc = "done", !.recorded = @ + 1]
    /\ UNCHANGED <<obj, status, resume, retrieval_top_k, pMap, pIdx, fn_str_map, vectordb,
                   pQa, pQaIdx, qa_cache, qa_vectordb>>
    /\ UNCHANGED <<output_files, error_txt, proposal, analysis>>
    /\ UNCHANGED depVars

NextAgent ==
    \/ \E task \in Tasks, qs \in ObservationQuestions : TrainStep(task, qs)
    \/ \E task \in Tasks : TestOne(task)
    \/ Reset
    \/ RetrieveForCoding
    \/ GenCode
    \/ (obj = "agent" /\ Begin)
    \/ (obj = "agent" /\ Iterate)
    \/ (obj = "agent" /\ Return)
    \/ Deferred
    \/ Step
    \/ CheckSuccess
    \/ HandleRolloutError
    \/ LogRollout
    \/ AddSkill(Count(fn_str_map) + 1)
    \/ UpdateProgress

SpecAgent == InitAgent /\ [][NextAgent]_vars

\* rollouts of an agent that may have run one before
SpecRollout == InitRollout /\ [][NextAgent]_vars

\* the interpreter runs on: a call that can take a step takes it
SpecAgentFair == InitAgent /\ [][NextAgent]_vars /\ WF_vars(NextAgent)

(***************************************************************************)
(* VoyagerCurriculumModule.get_next_task: run_qa, propose_next_ai_task     *)
(* with response_validation as its parse function, the collision rename.   *)
(* Tasks, names, setup code and test cases are texts here.                 *)
(***************************************************************************)
MaxProposed == 2    \* SpecPropose proposes while the two ledgers hold fewer entries in all

RuntimeError == <<"RuntimeError">>

AssertKw == <<"a", "s", "s", "e", "r", "t">>

\* s.startswith(prefix)
StartsWith(s, prefix) == Len(s) >= Len(prefix) /\ SubSeq(s, 1, Len(prefix)) = prefix

\* sub in s
InText(sub, s) == \E i \in 0..(Len(s) - Len(sub)) : SubSeq(s, i + 1, i + Len(sub)) = sub

RECURSIVE UpTo(_, _)
UpTo(s, c) == IF s = <<>> \/ Head(s) = c THEN <<>> ELSE <<Head(s)>> \o UpTo(Tail(s), c)

\* get_call_str: the left side of the comparison an assert statement tests
CallStr(assert_statement) ==
    UpTo(SubSeq(assert_statement, Len(AssertKw) + 2, Len(assert_statement)), "=")

\* the function names the model asks for
ProposedNames == { <<"f">>, <<"g">>, <<"f", " ", "g">> }

\* the lists of names a caller excludes (None and [] are both the empty one)
ExcludedNames == { {}, { <<"f">> }, { <<"f">>, <<"f", "_", "v", "2">> } }

TaskOf(name) == <<"d", "o", " ">> \o name

TestOf(name, arg) ==
    AssertKw \o <<" ">> \o name \o <<"(">> \o arg \o <<")", "=", "=", "1">>

\* a further statement after the assert of a test case: ast.parse reads both, and
\* get_call_str looks at body[0] only
SecondStatement == <<";", "x", "=", "1">>

\* answers of the model, parsed into the fields of NextTask, that response_validation
\* accepts when the task is new
GoodResponses ==
    UNION { { [task |-> task, gt_fn_name |-> name, test_setup_code |-> setup,
               test_tuple |-> tests] :
                 task \in {TaskOf(name), <<"d", "o">>},
                 setup \in {<<>>, <<"import", " ", "m">>, <<"y", "=">> \o name},
                 tests \in { <<TestOf(name, <<>>), TestOf(name, <<>>), TestOf(name, <<"1">>)>>,
                             <<TestOf(name, <<>>), TestOf(name, name \o name),
                               TestOf(name, <<"1">>)>>,
                             <<TestOf(name, <<>>) \o SecondStatement, TestOf(name, <<>>),
                               TestOf(name, <<"1">>)>> } } :
            name \in ProposedNames \ { <<"f", " ", "g">> } }

\* answers it rejects: no task, no test, an import off the whitelist, two function
\* names, a test case that is no assert, a test case that calls something else
BadResponses ==
    LET good == [task |-> TaskOf(<<"f">>), gt_fn_name |-> <<"f">>, test_setup_code |-> <<>>,
                 test_tuple |-> <<TestOf(<<"f">>, <<>>), TestOf(<<"f">>, <<>>),
                                  TestOf(<<"f">>, <<"1">>)>>]
    IN { [good EXCEPT !.task = <<>>],
         [good EXCEPT !.test_tuple = <<>>],
         [good EXCEPT !.test_setup_code = <<"import", " ", "o">>],
         [good EXCEPT !.gt_fn_name = <<"f", " ", "g">>],
         [good EXCEPT !.test_tuple[2] = <<"f", "(", ")">>],
         [good EXCEPT !.test_tuple[3] = AssertKw \o <<" ", "1", "=", "=", "f", "(", ")">>] }

Responses == GoodResponses \cup BadResponses

\* extract_from_ast(...)[3]: the modules the setup code imports
ImportedModules(code) ==
    IF StartsWith(code, <<"import", " ">>) THEN {SubSeq(code, 3, Len(code))} ELSE {}

WhitelistModules == { <<"m">> }

\* assert_single_gt_fn_name: len(function_name.split(" ")) == 1
SingleFnName(function_name) ==
    \A i \in 1..Len(function_name) : function_name[i] # " "

\* the body of the loop of construct_valid_test_cases
ValidTestCase(test_case, gt_fn_name) ==
    /\ StartsWith(test_case, AssertKw \o <<" ">>)
    /\ InText(gt_fn_name, CallStr(test_case))

\* the check of response_validation that fails first ("": none does)
ValidationError(response) ==
    IF response.task = <<>> THEN "task not found!"
    ELSE IF \E k \in 1..Len(completed_tasks) : completed_tasks[k] = response.task
    THEN "already completed"
    ELSE IF response.task = previous_task THEN "previous task"
    ELSE IF response.test_tuple = <<>> THEN "test_tuple not found!"
    ELSE IF ~(ImportedModules(response.test_setup_code) \subseteq WhitelistModules)
    THEN "module not in whitelist"
    ELSE IF ~SingleFnName(response.gt_fn_name) THEN "ONE function"
    ELSE IF \E k \in 1..Len(response.test_tuple) :
               ~ValidTestCase(response.test_tuple[k], response.gt_fn_name)
    THEN "test case"
    ELSE ""

\* a parse function whose exception says nothing
CorrectiveFeedback_Silent(error) == <<>>

\* parse_n_validate: the message of the exception it raises on a validation error
CorrectiveFeedback(error) == <<"Error! ", error, "Check your response again">>

\* response_validation raises nothing
ResponseValid(response) ==
    /\ response.task # <<>>
    /\ \A k \in 1..Len(completed_tasks) : completed_tasks[k] # response.task
    /\ response.task # previous_task
    /\ response.test_tuple # <<>>
    /\ ImportedModules(response.test_setup_code) \subseteq WhitelistModules
    /\ SingleFnName(response.gt_fn_name)
    /\ \A k \in 1..Len(response.test_tuple) :
          ValidTestCase(response.test_tuple[k], response.gt_fn_name)

\* response_validation, line 218: response['test_list'] = valid_test_cases
Validated(response) ==
    [task |-> response.task, gt_fn_name |-> response.gt_fn_name,
     test_setup_code |-> response.test_setup_code, test_tuple |-> response.test_tuple,
     test_list |-> response.test_tuple]

\* the while loop of the rename: the version it ends with
RECURSIVE FreeVersion(_, _, _)
FreeVersion(base_name, excluded_names, version) ==
    IF VersionedName(base_name, version) \in excluded_names
    THEN FreeVersion(base_name, excluded_names, version + 1)
    ELSE version

\* a rename that leaves the test cases as they are
RenameFields_NotTests(response, base_name, gt_fn_name) ==
    [response EXCEPT !.task = Replace(@, base_name, gt_fn_name),
                     !.gt_fn_name = Replace(@, base_name, gt_fn_name),
                     !.test_setup_code = Replace(@, base_name, gt_fn_name)]

\* the loop over fields_to_update
RenameFields(response, base_name, gt_fn_name) ==
    [response EXCEPT !.task = Replace(@, base_name, gt_fn_name),
                     !.gt_fn_name = Replace(@, base_name, gt_fn_name),
                     !.test_setup_code = Replace(@, base_name, gt_fn_name),
                     !.test_list = [k \in DOMAIN @ |-> Replace(@[k], base_name, gt_fn_name)]]

\* a rename that always takes _v2
FreeName_V2(base_name, excluded_names) == VersionedName(base_name, 2)

\* version = 1; while gt_fn_name in excluded_names: version += 1; gt_fn_name = base_v{version}
FreeName(base_name, excluded_names) ==
    VersionedName(base_name, FreeVersion(base_name, excluded_names, 2))

\* propose_next_ai_task after lm_reason returned a response: the rename on a collision
Renamed(response, excluded_names) ==
    IF excluded_names # {} /\ response.gt_fn_name \in excluded_names
    THEN RenameFields(response, response.gt_fn_name,
                      FreeName(response.gt_fn_name, excluded_names))
    ELSE response

StrictlyFollow == <<"\nYou must strictly follow the function name: ">>

\* response['task_prompt'] = f"{task}\nYou must strictly follow the function name: {gt_fn_name}"
WithTaskPrompt(response) ==
    [task |-> response.task, gt_fn_name |-> response.gt_fn_name,
     test_setup_code |-> response.test_setup_code, test_tuple |-> response.test_tuple,
     test_list |-> response.test_list,
     task_prompt |-> response.task \o StrictlyFollow \o response.gt_fn_name]

MaxProposeRetries == 2   \* max_propose_retries, the parse_tries of the proposal

\* lm_reason: what each further synthesis attempt is given, the message parse_fn raised
FeedbackOf(errors) == [k \in 1..Len(errors) |-> CorrectiveFeedback(errors[k])]

\* lm_reason(parse_tries, parse_fn) on the model's successive answers: it stops at the
\* first answer parse_fn accepts, or after parse_tries answers
RECURSIVE LmReason(_, _, _)
LmReason(answers, parse_tries, errors) ==
    IF parse_tries = 0 \/ answers = <<>>
    THEN [tries |-> Len(errors), accepted |-> FALSE, errors |-> errors, response |-> NoneVal]
    ELSE LET error == ValidationError(Head(answers))
         IN IF error = ""
            THEN [tries |-> Len(errors) + 1, accepted |-> TRUE, errors |-> errors,
                  response |-> Validated(Head(answers))]
            ELSE LmReason(Tail(answers), parse_tries - 1, Append(errors, error))

\* get_next_task(excluded_names): run_qa on the questions asked about the observation,
\* then propose_next_ai_task: lm_reason returns a response that passed parse_n_validate
\* within its tries, or nothing; answers are the answers the model gives, one for each try
GetNextTask(excluded_names, qs, answers) ==
    /\ obj = "proposer"
    /\ proposal.pc = "idle"
    /\ RunQaOnCache(qs)
    /\ IF last'.ret = AssertionError
       THEN proposal' = [NoProposal EXCEPT !.pc = "raised",
                                           !.excluded_names = excluded_names,
                                           !.ret = AssertionError]
       ELSE \E out \in {LmReason(answers, MaxProposeRetries, <<>>)} :
               /\ Len(answers) = out.tries
               /\ out.accepted \/ out.tries = MaxProposeRetries
               /\ proposal' =
                     IF ~out.accepted
                     THEN [pc |-> "raised", excluded_names |-> excluded_names,
                           tries |-> out.tries, errors |-> out.errors,
                           feedback |-> FeedbackOf(out.errors),
                           response |-> NoneVal, ret |-> RuntimeError]
                     ELSE [pc |-> "returned", excluded_names |-> excluded_names,
                           tries |-> out.tries, errors |-> out.errors,
                           feedback |-> FeedbackOf(out.errors),
                           response |-> out.response,
                           ret |-> WithTaskPrompt(Renamed(out.response, excluded_names))]
    /\ UNCHANGED <<obj, status, resume, retrieval_top_k, pMap, pIdx, fn_str_map, vectordb>>
    /\ UNCHANGED depVars
    /\ UNCHANGED ledgerVars
    /\ UNCHANGED <<agent, output_files, error_txt, analysis>>

\* update_exploration_progress with the proposed task and the outcome of its rollout
RecordProposed(success) ==
    /\ obj = "proposer"
    /\ proposal.pc = "returned"
    /\ RecordOutcome(proposal.ret.task, success)
    /\ proposal' = NoProposal
    /\ UNCHANGED <<obj, status, resume, retrieval_top_k, pMap, pIdx, fn_str_map, vectordb,
                   pQa, pQaIdx, qa_cache, qa_vectordb>>
    /\ UNCHANGED depVars
    /\ UNCHANGED <<agent, output_files, error_txt, analysis>>

\* the model's first answer passes, or it gives one failing answer at every try
FirstTry == {<<response>> : response \in Responses}

SameEachTry == {[k \in 1..MaxProposeRetries |-> response] : response \in Responses}

\* the rejected answers it mixes: the import off the whitelist, the test that is no assert
MixedBad ==
    {bad \in BadResponses :
        \/ bad.test_setup_code # <<>>
        \/ bad.test_tuple # <<>> /\ bad.test_tuple[2] = <<"f", "(", ")">>}

\* it gives rejected answers at every try, or at the first tries and then the task g
EveryTryFails == [1..MaxProposeRetries -> MixedBad]

LaterTry ==
    LET good == [task |-> TaskOf(<<"g">>), gt_fn_name |-> <<"g">>, test_setup_code |-> <<>>,
                 test_tuple |-> <<TestOf(<<"g">>, <<>>), TestOf(<<"g">>, <<>>),
                                  TestOf(<<"g">>, <<"1">>)>>]
    IN UNION { {bad \o <<good>> : bad \in [1..n -> MixedBad]} :
                  n \in 1..(MaxProposeRetries - 1) }

InitPropose ==
    /\ obj = "proposer"
    /\ status = "ok"
    /\ resume = TRUE
    /\ retrieval_top_k = DefaultTopK
    /\ pMap = EmptyMap
    /\ pIdx = EmptyMap
    /\ \E n \in {0, 1} :
          /\ pQa = PersistedQa(n)
          /\ pQaIdx = PersistedQaIndex(n)
    /\ fn_str_map = EmptyMap
    /\ vectordb = EmptyMap
    /\ qa_cache = pQa
    /\ qa_vectordb = pQaIdx
    /\ last = NoOp
    /\ NoCall
    /\ completed_tasks = <<>>
    /\ failed_tasks = <<>>
    /\ ledger_file = [completed |-> <<>>, failed |-> <<>>]
    /\ previous_task = <<>>
    /\ NoAgent

NextPropose ==
    \/ /\ Len(completed_tasks) + Len(failed_tasks) < MaxProposed
       /\ \E excluded_names \in ExcludedNames, qs \in ObservationQuestions,
             answers \in FirstTry \cup SameEachTry \cup EveryTryFails \cup LaterTry :
                GetNextTask(excluded_names, qs, answers)
    \/ \E success \in BOOLEAN : RecordProposed(success)

SpecPropose == InitPropose /\ [][NextPropose]_vars

(***************************************************************************)
(* extract_from_ast and VoyagerCoding.parse_ai_code / validate_code.       *)
(* A source is its syntax tree: the nodes in source order, each with the   *)
(* index of its parent (0: the Module).                                    *)
(***************************************************************************)
MaxNodes == 3       \* a source has up to this many definitions, imports and calls

\* set(dir(builtins))
Builtins == {"len"}

\* whitelist_modules
AllowedModules == {"math"}

\* def f / def g, class C, import math / import os, from math import sqrt,
\* from math import sqrt as root, and the calls f() h() len() sqrt() root()
Statements ==
    { [kind |-> "FunctionDef", name |-> n, asname |-> n, module |-> ""] : n \in {"f", "g"} }
    \cup { [kind |-> "ClassDef", name |-> "C", asname |-> "C", module |-> ""] }
    \cup { [kind |-> "Import", name |-> m, asname |-> m, module |-> m] : m \in {"math", "os"} }
    \cup { [kind |-> "ImportFrom", name |-> "sqrt", asname |-> a, module |-> "math"] :
              a \in {"sqrt", "root"} }
    \cup { [kind |-> "Call", name |-> n, asname |-> n, module |-> ""] :
              n \in {"f", "h", "len", "sqrt", "root"} }

\* the nodes that can hold statements
Scopes(nodes) ==
    {0} \cup {i \in 1..Len(nodes) : nodes[i].kind \in {"FunctionDef", "ClassDef"}}

\* the syntax trees of up to n nodes, each node in the module or in an earlier
\* definition
RECURSIVE Trees(_)
Trees(n) ==
    IF n = 0 THEN {<<>>}
    ELSE LET Grown(shorter) ==
                shorter
                \cup { t \in { Append(nodes, [kind |-> st.kind, name |-> st.name,
                                              asname |-> st.asname, module |-> st.module,
                                              parent |-> p]) :
                                  nodes \in shorter, st \in Statements, p \in 0..(n - 1) } :
                          Len(t) = n /\ t[n].parent \in Scopes(t) }
         IN Grown(Trees(n - 1))

\* what the model answers: a source that parses, or one that does not
Sources ==
    {[parses |-> FALSE, nodes |-> <<>>]}
    \cup { [parses |-> TRUE, nodes |-> nodes] : nodes \in Trees(MaxNodes) }

\* ast.iter_child_nodes(node), in source order
RECURSIVE ChildNodes(_, _, _)
ChildNodes(nodes, p, from) ==
    IF from > Len(nodes) THEN <<>>
    ELSE (IF nodes[from].parent = p THEN <<from>> ELSE <<>>)
         \o ChildNodes(nodes, p, from + 1)

\* an ast.walk that does not descend
AstWalk_TopLevel(nodes, todo) == todo

\* ast.walk: breadth first, todo is its deque
RECURSIVE AstWalk(_, _)
AstWalk(nodes, todo) ==
    IF todo = <<>> THEN <<>>
    ELSE <<Head(todo)>> \o AstWalk(nodes, Tail(todo) \o ChildNodes(nodes, Head(todo), 1))

\* extract_info_from_fn: the names the calls under the node call, built-ins left out
CalledUnder(nodes, i) ==
    LET under == AstWalk(nodes, <<i>>)
    IN {nodes[under[k]].name : k \in {k \in 1..Len(under) :
            /\ nodes[under[k]].kind = "Call"
            /\ nodes[under[k]].name \notin Builtins}}

\* the names the final loop of extract_from_ast discards
Discarded(functions, imported_fns) ==
    {functions[k].name : k \in 1..Len(functions)}
    \cup {imported_fns[k] : k \in 1..Len(imported_fns)}

\* extract_from_ast(code)
ExtractFromAst(code) ==
    IF ~code.parses
    THEN [raised |-> CouldNotParse, functions |-> <<>>,
          import_statements |-> <<>>, dependencies |-> {}, all_imported_modules |-> {}]
    ELSE LET nodes == code.nodes
             walk == AstWalk(nodes, ChildNodes(nodes, 0, 1))
             IsFn(i) == nodes[i].kind = "FunctionDef"
             IsImport(i) == nodes[i].kind \in {"Import", "ImportFrom"}
             IsFrom(i) == nodes[i].kind = "ImportFrom"
             fns == SelectSeq(walk, IsFn)
             imports == SelectSeq(walk, IsImport)
             froms == SelectSeq(walk, IsFrom)
             functions == [k \in 1..Len(fns) |->
                             [name |-> nodes[fns[k]].name, node |-> fns[k],
                              no_parent |-> nodes[fns[k]].parent = 0]]
             imported_fns == [k \in 1..Len(froms) |-> nodes[froms[k]].name]
             called == UNION {CalledUnder(nodes, fns[k]) : k \in 1..Len(fns)}
         IN [raised |-> "", functions |-> functions,
             import_statements |-> [k \in 1..Len(imports) |-> imports[k]],
             dependencies |-> called \ Discarded(functions, imported_fns),
             all_imported_modules |-> {nodes[imports[k]].module : k \in 1..Len(imports)}]

\* extract_from_ast on the source
Analyse ==
    /\ obj = "analyser"
    /\ analysis.pc = "given"
    /\ analysis' = [analysis EXCEPT !.pc = "analysed", !.out = ExtractFromAst(analysis.code)]
    /\ UNCHANGED <<agent, output_files, error_txt, proposal>>
    /\ UNCHANGED storeVars
    /\ UNCHANGED depVars
    /\ UNCHANGED ledgerVars

NoExtract ==
    [raised |-> "", functions |-> <<>>, import_statements |-> <<>>, dependencies |-> {},
     all_imported_modules |-> {}]

\* the expected function names a task gives ("": none)
GtFnNames == {"", "f", "g"}

\* a validation that asks for the first top-level function
MainFnName_First(main_fns) == IF main_fns # <<>> THEN main_fns[1].name ELSE ""

\* parse_ai_code: fn_name = main_fns[-1]['name'] when there are main functions
MainFnName(main_fns) == IF main_fns # <<>> THEN main_fns[Len(main_fns)].name ELSE ""

\* find_gt_fn
FindGtFn(functions, gt_fn_name) ==
    LET named == {k \in 1..Len(functions) : functions[k].name = gt_fn_name}
    IN IF named = {}
       THEN [raised |-> "could not find any function with the required name", no_parent |-> FALSE]
       ELSE [raised |-> "",
             no_parent |-> functions[CHOOSE k \in named : \A j \in named : k <= j].no_parent]

\* validate_code: the exception it raises ("": none) and the no_parent it returns
ValidateCode(imported_modules, functions, main_fns, fn_name, gt_fn_name, generic_code_env) ==
    LET check_imports == ~generic_code_env
        assert_fns == ~generic_code_env
    IN IF check_imports /\ ~(imported_modules \subseteq AllowedModules)
       THEN [raised |-> "module not in whitelist", no_parent |-> FALSE]
       ELSE IF assert_fns /\ functions = <<>>
       THEN [raised |-> NoFunctionsFound, no_parent |-> FALSE]
       ELSE IF gt_fn_name = "" THEN [raised |-> "", no_parent |-> FALSE]
       ELSE IF ~assert_fns THEN FindGtFn(functions, gt_fn_name)
       ELSE IF main_fns = <<>> THEN [raised |-> NoMainFunctions, no_parent |-> FALSE]
       ELSE IF gt_fn_name # fn_name THEN [raised |-> HelpersFirst, no_parent |-> FALSE]
       ELSE [raised |-> "", no_parent |-> TRUE]

NoParsedResult ==
    [program_code |-> <<>>, program_name |-> "", dependencies |-> {}, no_parent |-> FALSE]

\* parse_ai_code(message): the exception it raises ("": none) and the parsed result
ParseAiCode(code, gt_fn_name, generic_code_env) ==
    IF code.parses /\ code.nodes = <<>>
    THEN [raised |-> "regex fails to extract Python code", parsed_result |-> NoParsedResult]
    ELSE LET out == ExtractFromAst(code)
             NoParent(fn) == fn.no_parent
             main_fns == SelectSeq(out.functions, NoParent)
             fn_name == MainFnName(main_fns)
             valid == ValidateCode(out.all_imported_modules, out.functions, main_fns, fn_name,
                                   gt_fn_name, generic_code_env)
         IN IF out.raised # ""
            THEN [raised |-> out.raised, parsed_result |-> NoParsedResult]
            ELSE IF valid.raised # ""
            THEN [raised |-> valid.raised, parsed_result |-> NoParsedResult]
            ELSE [raised |-> "",
                  parsed_result |->
                     [program_code |->
                         IF generic_code_env THEN [code |-> code.nodes]
                         ELSE [imports |-> out.import_statements,
                               bodies |-> [k \in 1..Len(main_fns) |-> main_fns[k].node]],
                      program_name |-> fn_name,
                      dependencies |-> out.dependencies,
                      no_parent |-> valid.no_parent]]

\* parse_ai_code on the source, for a coding module reset with gt_fn_name
Parse(gt_fn_name, generic_code_env) ==
    /\ obj = "analyser"
    /\ analysis.pc = "given"
    /\ analysis' = [analysis EXCEPT !.pc = "parsed", !.gt_fn_name = gt_fn_name,
                                    !.generic_code_env = generic_code_env,
                                    !.out = ExtractFromAst(analysis.code),
                                    !.parsed = ParseAiCode(analysis.code, gt_fn_name,
                                                           generic_code_env)]
    /\ UNCHANGED <<agent, output_files, error_txt, proposal>>
    /\ UNCHANGED storeVars
    /\ UNCHANGED depVars
    /\ UNCHANGED ledgerVars

InitAnalyse ==
    /\ obj = "analyser"
    /\ status = "ok"
    /\ resume = TRUE
    /\ retrieval_top_k = DefaultTopK
    /\ pMap = EmptyMap
    /\ pIdx = EmptyMap
    /\ pQa = EmptyMap
    /\ pQaIdx = <<>>
    /\ fn_str_map = EmptyMap
    /\ vectordb = EmptyMap
    /\ qa_cache = EmptyMap
    /\ qa_vectordb = <<>>
    /\ last = NoOp
    /\ NoCall
    /\ NoLedger
    /\ agent = IdleAgent
    /\ output_files = <<>>
    /\ error_txt = <<>>
    /\ proposal = NoProposal
    /\ \E code \in Sources :
          analysis = [pc |-> "given", code |-> code, out |-> NoExtract, gt_fn_name |-> "",
                      generic_code_env |-> FALSE,
                      parsed |-> [raised |-> "", parsed_result |-> NoParsedResult]]

NextAnalyse ==
    \/ Analyse
    \/ \E gt_fn_name \in GtFnNames, generic_code_env \in BOOLEAN :
          Parse(gt_fn_name, generic_code_env)

SpecAnalyse == InitAnalyse /\ [][NextAnalyse]_vars

(***************************************************************************)
(* Claims about the skill library and the QA cache (SpecStore).            *)
(***************************************************************************)
\* C1: every add returns (its sync assertion never fails), on return the
\* similarity index and the metadata map hold the same number of entries,
\* a storing add grows both by exactly one and a skipping add changes neither.
C1_AddKeepsIndexAndMapInStep ==
    [][ last'.op = "add" =>
          /\ last'.ret # AssertionError
          /\ Count(vectordb') = Count(fn_str_map')
          /\ IF last'.ret # NoneVal
             THEN /\ Count(fn_str_map') = Count(fn_str_map) + 1
                  /\ Count(vectordb') = Count(vectordb) + 1
             ELSE /\ fn_str_map' = fn_str_map
                  /\ vectordb' = vectordb ]_vars

C1_Witness ==
    /\ Stored(last)
    /\ Count(fn_str_map) = 3
    /\ Count(vectordb) = 3
    /\ last.ret = <<"g">>

PersistedMismatch ==
    IF obj = "skill" THEN Count(pIdx) # Count(pMap) ELSE Len(pQaIdx) # Count(pQa)

\* C2: constructing a store with resume set from a persisted index and map of
\* different sizes fails; the failed store takes no further step (no add,
\* retrieve or answer), and the persisted index and map stay as they were.
C2_MismatchFailsAtLoad ==
    [][ /\ status # "failed"
        /\ (status = "new" /\ resume /\ PersistedMismatch) =>
              /\ status' = "failed"
              /\ <<pMap, pIdx, pQa, pQaIdx>>' = <<pMap, pIdx, pQa, pQaIdx>>
              /\ <<fn_str_map, vectordb, qa_cache, qa_vectordb, last>>' =
                    <<fn_str_map, vectordb, qa_cache, qa_vectordb, last>> ]_vars

C2_Witness ==
    /\ obj = "curriculum"
    /\ status = "failed"
    /\ resume
    /\ Len(pQaIdx) = 5
    /\ Count(pQa) = 4
    /\ last.op = "none"

\* out is code with every occurrence of the token old replaced by new and
\* every other character kept, in order
Rewritten(code, old, new, out) ==
    LET occ == {p \in 1..Len(code) :
                    /\ p + Len(old) - 1 <= Len(code)
                    /\ SubSeq(code, p, p + Len(old) - 1) = old}
        shift(p) == Cardinality({q \in occ : q < p}) * (Len(new) - Len(old))
    IN /\ Len(out) = Len(code) + Cardinality(occ) * (Len(new) - Len(old))
       /\ \A p \in occ : SubSeq(out, p + shift(p), p + shift(p) + Len(new) - 1) = new
       /\ \A p \in 1..Len(code) :
             (~ \E q \in occ : q <= p /\ p < q + Len(old)) => out[p + shift(p)] = code[p]

\* C3: an add under a used name that is not skipped stores the entry under
\* name_v{v}, v the smallest integer >= 2 with name_v{v} unused, with every
\* `name(` of the code rewritten to `name_v{v}(`, and returns that name.
C3_UsedNameIsVersioned ==
    [][ (Stored(last') /\ last'.payload.name \in DOMAIN fn_str_map) =>
          \E v \in 2..(Count(fn_str_map) + 2) :
              LET name == last'.payload.name
                  versioned == VersionedName(name, v)
              IN /\ versioned \notin DOMAIN fn_str_map
                 /\ \A u \in 2..(v - 1) : VersionedName(name, u) \in DOMAIN fn_str_map
                 /\ last'.ret = versioned
                 /\ DOMAIN fn_str_map' = DOMAIN fn_str_map \cup {versioned}
                 /\ Rewritten(last'.payload.code, Header(name), Header(versioned),
                              fn_str_map'[versioned].code) ]_vars

C3_Witness ==
    /\ Stored(last)
    /\ last.payload.name = <<"f">>
    /\ last.ret = <<"f", "_", "v", "2">>
    /\ DOMAIN fn_str_map = {<<"f">>, <<"f", "_", "v", "2">>}
    /\ fn_str_map[<<"f">>].code = <<"f", "(", "x">>
    /\ fn_str_map[last.ret].code = <<"f", "_", "v", "2", "(", "f", "_", "v", "2", "(">>

\* C4 (as claimed): under the skip-if-identical policy, adding the payload of
\* the previous add again leaves the metadata map and the index unchanged.
C4_SecondAddChangesNothing ==
    [][ (/\ last.op = "add" /\ last.dedup /\ last.ret # AssertionError
         /\ last'.op = "add" /\ last'.dedup
         /\ last'.payload = last.payload) =>
            /\ fn_str_map' = fn_str_map
            /\ vectordb' = vectordb ]_vars

\* C5 (as claimed): an add that skips an identical payload returns the name
\* of the existing entry whose code, with its header named back, is the payload's.
C5_SkipReturnsExistingName ==
    [][ (last'.op = "add" /\ last'.dedup /\ fn_str_map' = fn_str_map) =>
          /\ last'.ret \in DOMAIN fn_str_map
          /\ Replace(fn_str_map[last'.ret].code, Header(last'.ret), Header(last'.payload.name))
                = last'.payload.code ]_vars

(***************************************************************************)
(* Claims about retrieval (SpecRetrieve).                                  *)
(***************************************************************************)
\* C6: retrieve_code never raises on a constructed store and returns exactly
\* min(retrieval_top_k, number of stored skills) entries, each the stored entry
\* of a distinct indexed name; on an empty store it returns the empty list
\* without querying the index.
C6_RetrieveReturnsMinKEntries ==
    /\ status = "ok" => \A q \in Descriptions : ENABLED RetrieveCode(q)
    /\ last.op = "retrieve" =>
          /\ Len(last.entries) = Min(retrieval_top_k, Count(fn_str_map))
          /\ Len(last.docs) = Len(last.entries)
          /\ \A i, j \in 1..Len(last.docs) : i # j => last.docs[i] # last.docs[j]
          /\ \A i \in 1..Len(last.docs) :
                /\ last.docs[i] \in DOMAIN vectordb
                /\ last.docs[i] \in DOMAIN fn_str_map
                /\ last.entries[i] = fn_str_map[last.docs[i]]
          /\ Count(fn_str_map) = 0 => (last.entries = <<>> /\ ~last.queried)
          /\ Min(retrieval_top_k, Count(fn_str_map)) # 0 => last.queried

C6_Witness ==
    /\ last.op = "retrieve"
    /\ retrieval_top_k = 2
    /\ Count(fn_str_map) = 3
    /\ Len(last.entries) = 2
    /\ last.docs[1] # last.docs[2]

\* retrieve_code(D) with top-k 1 right after an add that stored a skill of description D
RoundTrip ==
    /\ last.op = "retrieve"
    /\ last.after # NoneVal
    /\ last.query = fn_str_map[last.after].description
    /\ retrieval_top_k = 1

\* C7 (as claimed): after add stores a skill with description D, retrieval of
\* D with k = 1 returns exactly that skill, in any store state.
C7_RoundTripExact ==
    RoundTrip =>
        /\ last.docs = <<last.after>>
        /\ last.entries = <<fn_str_map[last.after]>>

\* C7 (amended): the retrieval returns one stored skill whose description is D,
\* and it is the skill just added whenever no other stored skill has description D.
C7_RoundTripUpToEqualDescriptions ==
    RoundTrip =>
        /\ Len(last.entries) = 1
        /\ last.entries[1].description = last.query
        /\ last.entries[1] = fn_str_map[last.docs[1]]
        /\ (\A n \in DOMAIN fn_str_map :
                fn_str_map[n].description = last.query => n = last.after) =>
              /\ last.docs = <<last.after>>
              /\ last.entries = <<fn_str_map[last.after]>>

C7_Witness ==
    /\ RoundTrip
    /\ Count(fn_str_map) = 3
    /\ last.query = 2
    /\ last.docs = <<last.after>>
    /\ \A n \in DOMAIN fn_str_map : fn_str_map[n].description = 2 <=> n = last.after

(***************************************************************************)
(* Claims about the dependency resolver (SpecDep, SpecDepFair).            *)
(***************************************************************************)
\* the skills a list of names refers to: those some table holds
Held(names) ==
    {names[i] : i \in {j \in 1..Len(names) :
                          \E t \in 1..Len(fn_str_map_list) : names[j] \in DOMAIN fn_str_map_list[t]}}

\* the entry of a held skill: that of the first table that holds it
EntryOf(name) ==
    LET t == CHOOSE i \in 1..Len(fn_str_map_list) :
                /\ name \in DOMAIN fn_str_map_list[i]
                /\ ~ \E j \in 1..Len(fn_str_map_list) : j < i /\ name \in DOMAIN fn_str_map_list[j]
    IN fn_str_map_list[t][name]

\* the dependencies recorded for a held skill
DependenciesOf(name) ==
    LET e == EntryOf(name)
    IN IF \E k \in DOMAIN e : k = "dependencies" THEN e["dependencies"] ELSE <<>>

\* the least set of held skills that holds those of start and is closed under recorded dependencies
RECURSIVE ClosedUnder(_)
ClosedUnder(set) ==
    LET more == set \cup UNION {Held(DependenciesOf(n)) : n \in set}
    IN IF more = set THEN set ELSE ClosedUnder(more)

Reachable == ClosedUnder(Held(called_with))

Orders(set) ==
    {l \in [1..Cardinality(set) -> set] : \A i, j \in 1..Cardinality(set) : i # j => l[i] # l[j]}

CodeOf(order) == [i \in 1..Len(order) |-> EntryOf(order[i]).code]

Occurrences(list, x) == Cardinality({i \in 1..Len(list) : list[i] = x})

\* C8: the assembled unit is the code of exactly the skills reachable from the
\* candidate's dependencies through the recorded dependencies of found skills,
\* each once, in some order, followed by the candidate's code, joined by blank lines.
C8_AssembledIsReachableOnceThenCandidate ==
    pc = "done" =>
        \E order \in Orders(Reachable) :
            /\ dependent_code = Append(CodeOf(order), CandidateCode)
            /\ parsed_result.full_code = Join(Append(CodeOf(order), CandidateCode), BlankLine)

\* a diamond: the candidate needs a and b, both need c
C8_Witness ==
    /\ pc = "done"
    /\ Len(fn_str_map_list) = 1
    /\ called_with = << <<"a">>, <<"b">> >>
    /\ Reachable = DepNames
    /\ DependenciesOf(<<"a">>) = << <<"c">> >>
    /\ DependenciesOf(<<"b">>) = << <<"c">> >>
    /\ parsed_result.full_code =
          <<"c", "(", ")", "\n", "\n", "b", "(", ")", "\n", "\n", "a", "(", ")", "\n", "\n",
            "p", "(", ")">>

\* the candidate calls b, b depends on a, a has no dependencies
Chain ==
    /\ called_with = << <<"b">> >>
    /\ Reachable = {<<"a">>, <<"b">>}
    /\ DependenciesOf(<<"b">>) = << <<"a">> >>
    /\ DependenciesOf(<<"a">>) = <<>>

\* C9: the assembled unit lists the included skills in the reverse of the
\* order they were found in, the candidate last; for the chain candidate -> b -> a
\* it is a's code, b's code, the candidate's code.
C9_ReverseDiscoveryOrder ==
    pc = "done" =>
        /\ dependent_code = Append(CodeOf(Reverse(discovered)), CandidateCode)
        /\ parsed_result.full_code = Join(dependent_code, BlankLine)
        /\ (Len(called_with) = 1 /\ \A n \in Reachable : Len(DependenciesOf(n)) <= 1) =>
              \A i \in 1..Len(discovered) :
                  IF i = 1 THEN called_with = <<discovered[1]>>
                  ELSE DependenciesOf(discovered[i - 1]) = <<discovered[i]>>
        /\ Chain => dependent_code =
                       <<EntryOf(<<"a">>).code, EntryOf(<<"b">>).code, CandidateCode>>

C9_Witness ==
    /\ pc = "done"
    /\ Chain
    /\ Len(fn_str_map_list) = 2
    /\ parsed_result.full_code =
          <<"a", "(", ")", "\n", "\n", "b", "(", ")", "\n", "\n", "p", "(", ")">>

\* C10: every call of the resolver returns, also when the recorded
\* dependencies form a cycle or a skill depends on itself, and no skill's code
\* is ever collected twice: each reachable skill is in the result exactly once.
C10_ResolutionTerminates ==
    /\ <>(pc = "done")
    /\ [](\A n \in Reachable :
              /\ Occurrences(dependent_code, EntryOf(n).code) <= 1
              /\ pc = "done" => Occurrences(dependent_code, EntryOf(n).code) = 1)

\* a depends on itself and on b, b depends on a
C10_Witness ==
    /\ pc = "done"
    /\ called_with = << <<"a">> >>
    /\ Reachable = {<<"a">>, <<"b">>}
    /\ DependenciesOf(<<"a">>) = << <<"a">>, <<"b">> >>
    /\ DependenciesOf(<<"b">>) = << <<"a">> >>
    /\ dependent_code = <<EntryOf(<<"b">>).code, EntryOf(<<"a">>).code, CandidateCode>>

(***************************************************************************)
(* Claims about the task ledgers (SpecLedger).                             *)
(***************************************************************************)
FirstAt(list, x) == CHOOSE i \in 1..Len(list) : list[i] = x /\ \A j \in 1..(i - 1) : list[j] # x

Members(list) == {list[i] : i \in 1..Len(list)}

\* C11: after every recorded outcome, whatever the ledgers held before,
\* completed has no duplicates and lists the tasks of the old completed (with
\* the task, if it succeeded) in the order of their first occurrences, and
\* failed is the old failed (with the task, if it did not succeed) without
\* the tasks that are in completed; the files on disk hold the same.
C11_LedgerCleanAfterRecord ==
    [][ last'.op = "record" =>
          LET was == IF last'.queried THEN Append(completed_tasks, last'.query)
                     ELSE completed_tasks
              wasFailed == IF last'.queried THEN failed_tasks
                           ELSE Append(failed_tasks, last'.query)
              now == completed_tasks'
              kept(t) == t \notin Members(now)
          IN /\ \A i, j \in 1..Len(now) : i # j => now[i] # now[j]
             /\ Members(now) = Members(was)
             /\ \A i, j \in 1..Len(now) : i < j => FirstAt(was, now[i]) < FirstAt(was, now[j])
             /\ Members(failed_tasks') \cap Members(now) = {}
             /\ failed_tasks' = SelectSeq(wasFailed, kept)
             /\ ledger_file' = [completed |-> now, failed |-> failed_tasks'] ]_vars

\* completed [T1, T1, T2], failed [T1, T3] has become completed [T1, T2], failed [T3]
C11_Witness ==
    /\ last.op = "record"
    /\ last.query = 3
    /\ ~last.queried
    /\ completed_tasks = <<1, 2>>
    /\ failed_tasks = <<3>>
    /\ ledger_file = [completed |-> <<1, 2>>, failed |-> <<3>>]

(***************************************************************************)
(* Claims about the agent's rollout and training step (SpecAgent).         *)
(***************************************************************************)
\* the rollout of this behaviour is over: it returned or it raised
RolloutEnded ==
    agent.pc \in {"returned", "raised", "update_exploration_progress", "done"}

\* every rollout ends, given that every collaborator call returns or raises
RolloutTerminates == (agent.pc = "reset") ~> RolloutEnded

\* C12: the generation oracle is invoked at most max-attempts times in a rollout, and a
\* rollout in which every collaborator call returned, execution was not left for later
\* and no attempt was accepted has made exactly max-attempts attempts and has returned
\* success = false
C12_ExhaustedAfterMaxAttempts ==
    /\ agent.calls.gen_code <= agent.max_task_attempts
    /\ agent.i <= agent.max_task_attempts
    /\ (/\ RolloutEnded
        /\ error_txt = <<>>
        /\ ~DeferredMode(agent)
        /\ ~agent.critic_out.success)
       => /\ agent.i = agent.max_task_attempts
          /\ agent.pc # "raised"
          /\ agent.ret[1] = FALSE

\* C13: once the critique of an attempt reports success, the rollout makes no further
\* retrieval, generation, execution or critique call: what is left of it is the rollout
\* record and the return, and it returns success = true
C13_NoCallAfterSuccess ==
    /\ [](agent.critic_out.success =>
             agent.pc \in {"log_rollout", "returned", "update_exploration_progress", "done"})
    /\ [][agent.critic_out.success =>
             /\ agent'.calls = agent.calls
             /\ agent'.critic_out = agent.critic_out
             /\ agent.pc = "log_rollout" => (agent'.pc = "returned" /\ agent'.ret[1] = TRUE)]_vars

\* an attempt before the last one was accepted and the rollout returned
C13_Witness ==
    /\ agent.pc = "returned"
    /\ agent.ret[1] = TRUE
    /\ agent.critic_out.success
    /\ agent.i = 1
    /\ agent.max_task_attempts = MaxAttempts
    /\ agent.calls = [retrieve |-> 1, gen_code |-> 1, step |-> 1, check_success |-> 1]

\* C14: when a collaborator call inside the attempt loop has raised, the exception is
\* logged with the task id to error.txt once, the loop is over, and the rollout does not
\* raise: it returns the success flag and the candidate it had when the call raised
C14_AbortReturnsNormally ==
    error_txt # <<>> =>
       /\ error_txt = << [task_id |-> agent.task, error |-> error_txt[1].error] >>
       /\ error_txt[1].error \in {"retrieve_for_coding", "gen_code", "step", "check_success"}
       /\ agent.pc \in {"log_rollout", "returned", "update_exploration_progress", "done"}
       /\ RolloutEnded => agent.ret = <<agent.critic_out.success, agent.parsed>>

\* the file log_rollout writes for the task of this call
RolloutFile == <<IF agent.train THEN "train" ELSE "test", agent.task>>

\* C15: a training step never ends in an exception of its rollout; once the rollout has
\* returned, exactly one rollout record of the task has been written, and when the step
\* is over update_exploration_progress has been called exactly once, with the task and
\* the success flag the rollout returned
C15_TrainStepRecordsOnce ==
    agent.mode = "train_step" =>
       /\ agent.pc # "raised"
       /\ agent.pc \in {"returned", "update_exploration_progress", "done"} =>
             /\ agent.logged = 1
             /\ DOMAIN output_files = {RolloutFile}
             /\ output_files[RolloutFile].task_id = agent.task
             /\ output_files[RolloutFile].success = agent.ret[1]
       /\ agent.pc \notin {"returned", "update_exploration_progress", "done"} =>
             agent.logged = 0
       /\ agent.pc = "done" =>
             /\ agent.recorded = 1
             /\ last.op = "record"
             /\ last.query = agent.task
             /\ last.queried = agent.ret[1]
       /\ agent.pc # "done" => agent.recorded = 0

\* the step of train_step that archives the accepted candidate
ArchiveStep == agent.pc = "returned" /\ agent'.pc = "update_exploration_progress"

\* the step in which train_step records the outcome and ends
OutcomeStep == agent.mode = "train_step" /\ agent.pc # "done" /\ agent'.pc = "done"

\* the library gains exactly one entry, tagged with the task, whose code is `code` of the
\* candidate: as it is (exact), or under the rules of add (filed under the candidate's
\* name, or under a versioned name with the code's `name(` rewritten when that is taken)
OneNewEntry(exact) ==
    \E n \in DOMAIN fn_str_map' :
       /\ n \notin DOMAIN fn_str_map
       /\ DOMAIN fn_str_map' = DOMAIN fn_str_map \cup {n}
       /\ \A k \in DOMAIN fn_str_map : fn_str_map'[k] = fn_str_map[k]
       /\ fn_str_map'[n].task = agent.task
       /\ LET name == parsed_result.program_name
              code == fn_str_map'[n].code
          IN IF exact
             THEN code = agent.code
             ELSE \/ n = name /\ code = agent.code
                  \/ /\ name \in DOMAIN fn_str_map
                     /\ n # name
                     /\ Rewritten(agent.code, Header(name), Header(n), code)

\* what a training step does to the library and the ledgers
TrainStepOutcome(exact) ==
    /\ ArchiveStep => (agent.ret[1] /\ OneNewEntry(exact))
    /\ fn_str_map' # fn_str_map => ArchiveStep
    /\ OutcomeStep =>
          IF agent.ret[1]
          THEN /\ agent.pc = "update_exploration_progress"
               /\ \E k \in 1..Len(completed_tasks') : completed_tasks'[k] = agent.task
          ELSE /\ agent.pc = "returned"
               /\ failed_tasks' = Append(failed_tasks, agent.task)
               /\ completed_tasks' = completed_tasks

Requested(l) == IF l.op = "context" THEN <<Question(l.query)>> ELSE l.payload

Sent(l) == IF l.op = "context"
           THEN IF l.queried THEN <<Question(l.query)>> ELSE <<>>
           ELSE l.after

\* some indexed question is within the closeness threshold of q
Indexed(q) ==
    \E i \in 1..Len(qa_vectordb) : QaDistance(q, qa_vectordb[i]) < ClosenessThreshold

\* an answer operation sends a question to the collaborator only on a miss, at most
\* once, and files it; what it does not send it answers from the cache.  merged: both
\* operations look for an exact key and for a close indexed question, and always answer
AnswerStep(merged) ==
    LET op == last'.op
        asked == Requested(last')
        sent == Sent(last')
        Miss(q) == IF merged THEN q \notin DOMAIN qa_cache /\ ~Indexed(q)
                   ELSE IF op = "context" THEN q \notin DOMAIN qa_cache
                   ELSE q \notin DOMAIN qa_cache /\ ~Indexed(q)
    IN /\ \A k \in 1..Len(sent) :
             /\ Miss(sent[k])
             /\ sent[k] \in DOMAIN qa_cache'
             /\ \A m \in 1..Len(sent) : sent[m] = sent[k] => m = k
       /\ op = "context" /\ Miss(asked[1]) => sent = asked
       /\ \A q \in DOMAIN qa_cache : q \in DOMAIN qa_cache' /\ qa_cache'[q] = qa_cache[q]
       /\ DOMAIN qa_cache' = DOMAIN qa_cache \cup {sent[k] : k \in 1..Len(sent)}
       /\ IF last'.ret = AssertionError
          THEN /\ ~merged
               /\ \E k \in 1..Len(asked), i \in 1..Len(qa_vectordb') :
                     /\ QaDistance(asked[k], qa_vectordb'[i]) < ClosenessThreshold
                     /\ qa_vectordb'[i] \notin DOMAIN qa_cache'
          ELSE /\ Len(last'.entries) = Len(asked)
               /\ \A k \in 1..Len(asked) :
                     \E q \in DOMAIN qa_cache' :
                        /\ QaDistance(asked[k], q) < ClosenessThreshold
                        /\ last'.entries[k] = qa_cache'[q]

C18_IndexMatchesMap ==
    /\ [](obj = "curriculum" /\ status = "ok" => Len(qa_vectordb) = Count(qa_cache))
    /\ [][last'.op \in {"context", "run_qa"} /\ last'.ret # AssertionError
            => /\ Len(qa_vectordb') = Len(qa_vectordb) + Len(Sent(last'))
               /\ Count(qa_cache') = Count(qa_cache) + Len(Sent(last'))]_vars

(***************************************************************************)
(* Claims about the proposal of the next task (SpecPropose).               *)
(***************************************************************************)
\* C19: the task get_next_task returns, after the collision rename, differs from every
\* completed task and from the previous task
C19_ReturnedTaskIsNew ==
    proposal.pc = "returned" =>
       /\ \A k \in 1..Len(completed_tasks) : completed_tasks[k] # proposal.ret.task
       /\ proposal.ret.task # previous_task

\* the characters that end an identifier
Separators == {" ", "(", ")", "=", "\n"}

\* name stands in text as an identifier of its own, not as a part of a longer one
RefersBare(text, name) ==
    \E i \in 0..(Len(text) - Len(name)) :
       /\ SubSeq(text, i + 1, i + Len(name)) = name
       /\ i = 0 \/ text[i] \in Separators
       /\ i + Len(name) = Len(text) \/ text[i + Len(name) + 1] \in Separators

\* the texts of a task that the rename goes through
RenamedTexts(r) ==
    {r.task, r.test_setup_code} \cup {r.test_list[k] : k \in 1..Len(r.test_list)}

\* C20: the function name of the returned task is not excluded; a name that collides is
\* replaced by base_v{n}, n the smallest integer >= 2 whose base_v{n} is not excluded,
\* in the description, the setup code and every test case, each test case then holding
\* the new name and none the old name on its own; a task whose name does not collide is
\* returned as it was validated
C20_RenameAvoidsExcluded ==
    proposal.pc = "returned" =>
       LET r == proposal.response
           p == proposal.ret
           base == r.gt_fn_name
       IN /\ p.gt_fn_name \notin proposal.excluded_names
          /\ IF base \in proposal.excluded_names
             THEN /\ \E n \in 2..(Cardinality(proposal.excluded_names) + 2) :
                        /\ p.gt_fn_name = VersionedName(base, n)
                        /\ \A m \in 2..(n - 1) :
                              VersionedName(base, m) \in proposal.excluded_names
                  /\ InText(base, r.task) => InText(p.gt_fn_name, p.task)
                  /\ InText(base, r.test_setup_code)
                        => InText(p.gt_fn_name, p.test_setup_code)
                  /\ Len(p.test_list) = Len(r.test_list)
                  /\ \A k \in 1..Len(p.test_list) : InText(p.gt_fn_name, p.test_list[k])
                  /\ \A text \in RenamedTexts(p) : ~RefersBare(text, base)
             ELSE /\ p.task = r.task
                  /\ p.gt_fn_name = r.gt_fn_name
                  /\ p.test_setup_code = r.test_setup_code
                  /\ p.test_tuple = r.test_tuple
                  /\ p.test_list = r.test_list

\* f collides with the excluded f and f_v2: the task comes back as f_v3, in the
\* description, in the setup code and in a test case that also names ff
C20_Witness ==
    /\ proposal.pc = "returned"
    /\ proposal.excluded_names = { <<"f">>, <<"f", "_", "v", "2">> }
    /\ proposal.response.gt_fn_name = <<"f">>
    /\ proposal.response.test_list[2] = TestOf(<<"f">>, <<"f", "f">>)
    /\ proposal.ret.gt_fn_name = <<"f", "_", "v", "3">>
    /\ proposal.ret.task = <<"d", "o", " ", "f", "_", "v", "3">>
    /\ proposal.ret.test_setup_code = <<"y", "=", "f", "_", "v", "3">>

\* C21: a proposal makes at most max_propose_retries synthesis attempts, each attempt
\* after a rejected one is given the message of that rejection; when every attempt is
\* rejected the proposal raises RuntimeError, returns no task, and leaves the ledgers
\* and previous_task as they were
C21_RetriesThenRuntimeError ==
    /\ [](/\ proposal.tries <= MaxProposeRetries
          /\ Len(proposal.feedback) = Len(proposal.errors)
          /\ \A k \in 1..Len(proposal.errors) :
                /\ proposal.errors[k] # ""
                /\ proposal.feedback[k]
                      = <<"Error! ", proposal.errors[k], "Check your response again">>
          /\ proposal.pc = "returned" => Len(proposal.errors) = proposal.tries - 1
          /\ proposal.pc = "raised" /\ proposal.ret = RuntimeError
                => /\ Len(proposal.errors) = MaxProposeRetries
                   /\ proposal.tries = MaxProposeRetries
                   /\ proposal.response = NoneVal)
    /\ [][proposal'.pc = "raised" /\ proposal.pc # "raised"
             => /\ completed_tasks' = completed_tasks
                /\ failed_tasks' = failed_tasks
                /\ ledger_file' = ledger_file
                /\ previous_task' = previous_task]_vars

\* every attempt was rejected, the first for its import and the second for its test
\* case, after an earlier task was recorded: RuntimeError
C21_Witness ==
    /\ proposal.pc = "raised"
    /\ proposal.ret = RuntimeError
    /\ proposal.tries = MaxProposeRetries
    /\ proposal.errors[1] = "module not in whitelist"
    /\ proposal.errors[MaxProposeRetries] = "test case"
    /\ previous_task # <<>>

(***************************************************************************)
(* Claims about the code analysis (SpecAnalyse).                           *)
(***************************************************************************)

\* the nodes of the analysed source of the given kinds
NodesOfKind(kinds) ==
    {i \in 1..Len(analysis.code.nodes) : analysis.code.nodes[i].kind \in kinds}

\* the names the source's imports bind
ImportBound ==
    {analysis.code.nodes[i].asname : i \in NodesOfKind({"Import", "ImportFrom"})}

\* the names of the functions the source defines, top-level or nested
DefinedFunctions == {analysis.code.nodes[i].name : i \in NodesOfKind({"FunctionDef"})}

\* C22: the dependency names extract_from_ast returns contain no function
\* defined in the source, no built-in and no name bound by an import.
C22_DependenciesAreForeign ==
    (analysis.pc = "analysed" /\ analysis.out.raised = "")
        => analysis.out.dependencies \cap (DefinedFunctions \cup Builtins \cup ImportBound) = {}

\* the top-level functions of the analysed source, in source order
TopLevelFunctions ==
    {i \in NodesOfKind({"FunctionDef"}) : analysis.code.nodes[i].parent = 0}

LastTopLevelName ==
    analysis.code.nodes[CHOOSE i \in TopLevelFunctions : \A j \in TopLevelFunctions : j <= i].name

\* a candidate that reaches the function checks of a validation that
\* enforces functions and expects a function name
EnforcedCase ==
    /\ analysis.pc = "parsed"
    /\ ~analysis.generic_code_env
    /\ analysis.gt_fn_name # ""
    /\ analysis.code.parses
    /\ analysis.code.nodes # <<>>
    /\ analysis.out.all_imported_modules \subseteq AllowedModules

\* C23: with an expected name and function enforcement on, a candidate is
\* accepted only if its last top-level function has the expected name, and
\* the accepted program name is that name; a candidate that passes the parse
\* and import checks is rejected with the no-functions violation when it has
\* no function, with the no-main-functions violation when none of its
\* functions is top-level, and with the helpers-first message when its last
\* top-level function has another name.
C23_LastTopLevelFunctionDecides ==
    /\ (/\ analysis.pc = "parsed"
        /\ ~analysis.generic_code_env
        /\ analysis.gt_fn_name # ""
        /\ analysis.parsed.raised = "")
          => /\ TopLevelFunctions # {}
             /\ LastTopLevelName = analysis.gt_fn_name
             /\ analysis.parsed.parsed_result.program_name = analysis.gt_fn_name
    /\ (EnforcedCase /\ NodesOfKind({"FunctionDef"}) = {})
          => analysis.parsed.raised = NoFunctionsFound
    /\ (EnforcedCase /\ NodesOfKind({"FunctionDef"}) # {} /\ TopLevelFunctions = {})
          => analysis.parsed.raised = NoMainFunctions
    /\ (EnforcedCase /\ TopLevelFunctions # {} /\ LastTopLevelName # analysis.gt_fn_name)
          => analysis.parsed.raised = HelpersFirst
    /\ (EnforcedCase /\ TopLevelFunctions # {} /\ LastTopLevelName = analysis.gt_fn_name)
          => analysis.parsed.raised = ""

\* a helper f, then the expected main function g: accepted as g
C23_Witness ==
    /\ EnforcedCase
    /\ analysis.gt_fn_name = "g"
    /\ Cardinality(TopLevelFunctions) = 2
    /\ analysis.code.nodes[1].name = "f"
    /\ analysis.parsed.raised = ""
    /\ analysis.parsed.parsed_result.program_name = "g"

\* C24: for a source that parses, extract_from_ast does not raise and returns
\* one import statement per import, the module of every import and one
\* functions entry per function definition, nested ones included.
C24_OneEntryPerStatement ==
    (analysis.pc = "analysed" /\ analysis.code.parses)
        => /\ analysis.out.raised = ""
           /\ Len(analysis.out.import_statements) = Cardinality(NodesOfKind({"Import", "ImportFrom"}))
           /\ {analysis.out.import_statements[k] : k \in 1..Len(analysis.out.import_statements)}
                 = NodesOfKind({"Import", "ImportFrom"})
           /\ analysis.out.all_imported_modules
                 = {analysis.code.nodes[i].module : i \in NodesOfKind({"Import", "ImportFrom"})}
           /\ Len(analysis.out.functions) = Cardinality(NodesOfKind({"FunctionDef"}))
           /\ {analysis.out.functions[k].node : k \in 1..Len(analysis.out.functions)}
                 = NodesOfKind({"FunctionDef"})

\* one import and one function nested in a class: one entry in each list
C24_Witness ==
    /\ analysis.pc = "analysed"
    /\ analysis.code.parses
    /\ Len(analysis.code.nodes) = 3
    /\ analysis.code.nodes[3].parent # 0
    /\ Len(analysis.out.import_statements) = 1
    /\ Len(analysis.out.functions) = 1
    /\ analysis.out.all_imported_modules = {"math"}

(***************************************************************************)
(* Claims about the attempts of one rollout (SpecRollout).                 *)
(***************************************************************************)

\* attempt k ended without a candidate: every parse try of gen_code failed validation
FailedValidation(k) == agent.attempts[k].parsed \in NoCandidate

\* C25: after an attempt whose candidate failed validation the next attempt's
\* retrieval cue and gen_code call carry the violation text as the critique.
C25_ViolationIsNextCritique ==
    \A k \in 1..(Len(agent.attempts) - 1) :
        FailedValidation(k)
            => /\ agent.attempts[k + 1].cue = <<agent.context, agent.attempts[k].violation>>
               /\ agent.attempts[k + 1].gen_code
                     => agent.attempts[k + 1].critique = agent.attempts[k].violation

\* the rollout runs, or has run, with execution left for later
InDeferredRollout ==
    /\ agent.mode # "none"
    /\ agent.eval_later
    /\ ~agent.train
    /\ ~agent.use_public_tests

\* C26: in deferred-execution mode the rollout never calls step or
\* check_success, no attempt follows the attempt that produced a validated
\* candidate, and the rollout returns success = false with that candidate.
C26_DeferredStopsAfterValidate ==
    InDeferredRollout
        => /\ agent.calls.step = 0
           /\ agent.calls.check_success = 0
           /\ \A k \in 1..Len(agent.attempts) :
                 agent.attempts[k].parsed = "dict" => k = Len(agent.attempts)
           /\ agent.pc = "returned"
                 => /\ agent.ret[1] = FALSE
                    /\ \A k \in 1..Len(agent.attempts) :
                          agent.attempts[k].parsed = "dict"
                             => /\ agent.ret[2] = "dict"
                                /\ parsed_result.program_code = agent.attempts[k].program_code

\* the first attempt validated: one attempt, returned with the candidate
C26_Witness ==
    /\ InDeferredRollout
    /\ agent.max_task_attempts = MaxAttempts
    /\ agent.pc = "returned"
    /\ Len(agent.attempts) = 1
    /\ agent.attempts[1].parsed = "dict"
    /\ agent.ret = <<FALSE, "dict">>

\* check_success returns
CriticReturns == agent.pc = "check_success" /\ agent'.pc # "except"

\* C27: with use_critic_success off, check_success returns the reward as
\* success, whether the critic was asked or not and whatever it answered;
\* with it on, the critic is asked and success is its verdict, false when
\* no answer could be parsed.
C27_SuccessIsRewardOrVerdict ==
    [][CriticReturns
         => /\ ~agent.use_critic_success => agent'.critic_out.success = agent.reward
            /\ agent.use_critic_success
                  => /\ agent'.critic.asked
                     /\ agent'.critic_out.success
                           = (agent'.critic.parsed /\ agent'.critic.success)]_vars

\* the critic was asked about a failed run and answered success; the reward decided
C27_Witness ==
    /\ ~agent.use_critic_success
    /\ agent.calls.check_success > 0
    /\ agent.critic.asked
    /\ agent.critic.parsed
    /\ agent.critic.success
    /\ ~agent.critic_out.success

\* C28: the first attempt of a rollout is called with empty code, feedback
\* and critique, whatever an earlier rollout left; an attempt that follows an
\* attempt with a candidate starts after that attempt's step and
\* check_success returned, its cue is the task context followed by that
\* attempt's critique, and its gen_code call receives that attempt's code,
\* feedback and critique.
C28_AttemptReceivesPreviousState ==
    \A k \in 1..Len(agent.attempts) :
        /\ k = 1 =>
              /\ agent.attempts[k].cue = <<agent.context, "">>
              /\ agent.attempts[k].gen_code
                    => /\ agent.attempts[k].prev_code = <<>>
                       /\ agent.attempts[k].obs = ""
                       /\ agent.attempts[k].critique = ""
        /\ (k > 1 /\ agent.attempts[k - 1].parsed = "dict") =>
              /\ agent.attempts[k - 1].step
              /\ agent.attempts[k - 1].check_success
              /\ agent.attempts[k].cue
                    = <<agent.context, agent.attempts[k - 1].critic_out.critique>>
              /\ agent.attempts[k].gen_code
                    => /\ agent.attempts[k].prev_code = agent.attempts[k - 1].program_code
                       /\ agent.attempts[k].obs = agent.attempts[k - 1].env_feedback
                       /\ agent.attempts[k].critique = agent.attempts[k - 1].critic_out.critique

\* after an earlier rollout, a second attempt that received the first one's critique
C28_Witness ==
    /\ agent.rollouts = 2
    /\ Len(agent.attempts) = 2
    /\ agent.attempts[1].gen_code
    /\ agent.attempts[2].gen_code
    /\ agent.attempts[2].critique = "fix"
    /\ agent.attempts[2].obs = "failed"
    /\ agent.attempts[2].prev_code = <<"g", "(", "f", "(">>

\* gen_code returns without a candidate
NoCandidateStep == agent.pc = "gen_code" /\ agent'.parsed \in NoCandidate /\ agent'.pc # "except"

\* C29: an attempt without a candidate counts against max_task_attempts, has
\* no step and no check_success, and leaves code, feedback, critique and
\* success as they were, so the next attempt is called with what this one
\* was called with.
C29_NoCandidateKeepsState ==
    /\ [](/\ Len(agent.attempts) = agent.i
          /\ agent.i <= agent.max_task_attempts
          /\ \A k \in 1..Len(agent.attempts) :
                FailedValidation(k)
                   => /\ ~agent.attempts[k].step
                      /\ ~agent.attempts[k].check_success
                      /\ k < Len(agent.attempts)
                            => /\ agent.attempts[k + 1].cue = agent.attempts[k].cue
                               /\ agent.attempts[k + 1].gen_code
                                     => /\ agent.attempts[k + 1].prev_code = agent.attempts[k].prev_code
                                        /\ agent.attempts[k + 1].obs = agent.attempts[k].obs
                                        /\ agent.attempts[k + 1].critique = agent.attempts[k].critique)
    /\ [][NoCandidateStep
            => /\ agent'.code = agent.code
               /\ agent'.obs = agent.obs
               /\ agent'.critic_out = agent.critic_out
               /\ agent'.i = agent.i
               /\ agent'.calls.step = agent.calls.step
               /\ agent'.calls.check_success = agent.calls.check_success
               /\ agent'.pc = IF agent.i < agent.max_task_attempts THEN "for" ELSE "log_rollout"]_vars

\* a second attempt without a candidate after a criticised first one: the
\* critique and the code of the first attempt are still what is carried
C29_Witness ==
    /\ Len(agent.attempts) = 2
    /\ FailedValidation(2)
    /\ agent.attempts[1].check_success
    /\ agent.critic_out.critique = "fix"
    /\ agent.code = agent.attempts[1].program_code
    /\ agent.pc = "log_rollout"

(***************************************************************************)
(* Claims about the order of the lookup tables (SpecDep).                  *)
(***************************************************************************)

\* the tables that hold name, by their position in fn_str_map_list
TablesWith(name) == {t \in 1..Len(fn_str_map_list) : name \in DOMAIN fn_str_map_list[t]}

\* the position of the earliest of them
Earliest(name) == CHOOSE t \in TablesWith(name) : \A u \in TablesWith(name) : t <= u

Collected == {dependent_code[i] : i \in 1..Len(dependent_code)}

\* C30: of a dependency that several tables hold, the resolver takes the code
\* and follows the recorded dependencies of the earliest table's entry only:
\* no later entry's code is in the result, and a skill that only a later
\* entry depends on is not included.
C30_EarliestTableOnly ==
    pc = "done" =>
        /\ \A i \in 1..Len(discovered) :
              /\ fn_str_map_list[Earliest(discovered[i])][discovered[i]].code \in Collected
              /\ \A t \in TablesWith(discovered[i]) \ {Earliest(discovered[i])} :
                    fn_str_map_list[t][discovered[i]].code
                        # fn_str_map_list[Earliest(discovered[i])][discovered[i]].code
                    => fn_str_map_list[t][discovered[i]].code \notin Collected
        /\ {discovered[i] : i \in 1..Len(discovered)} = Reachable

\* a is in both tables; the first records no dependency, the second records b,
\* which only the second table holds: the result is the first a and the candidate
C30_Witness ==
    /\ pc = "done"
    /\ Len(fn_str_map_list) = 2
    /\ called_with = << <<"a">> >>
    /\ TablesWith(<<"a">>) = {1, 2}
    /\ TablesWith(<<"b">>) = {2}
    /\ fn_str_map_list[1][<<"a">>].dependencies = <<>>
    /\ fn_str_map_list[2][<<"a">>].dependencies = << <<"b">> >>
    /\ discovered = << <<"a">> >>
    /\ dependent_code = <<SkillCode(<<"a">>), CandidateCode>>

(***************************************************************************)
(* Claims about names no table holds and about the order of the            *)
(* assembled unit (SpecDep).                                               *)
(***************************************************************************)

\* a list of names without the names no table holds
IsHeld(name) == TablesWith(name) # {}

Listed(names) == SelectSeq(names, IsHeld)

\* the codes a resolution collects, in the order it finds them, when the names no
\* table holds are in no list
RECURSIVE ResolutionOfListed(_, _, _)
ResolutionOfListed(queue, seen, collected) ==
    IF queue = <<>> THEN collected
    ELSE IF Head(queue) \in seen
    THEN ResolutionOfListed(Tail(queue), seen, collected)
    ELSE ResolutionOfListed(Tail(queue) \o Listed(DependenciesOf(Head(queue))),
                            seen \cup {Head(queue)},
                            Append(collected, EntryOf(Head(queue)).code))

\* an iteration that pops a name no table holds
MissStep ==
    /\ pc = "loop"
    /\ parsed_result.dependencies # <<>>
    /\ ~IsHeld(Head(parsed_result.dependencies))

\* C31: a name that no table holds does not make the resolver fail: the
\* iteration that pops it drops it and the loop goes on, and the returned unit
\* is the one the resolver builds when the name is in no list: every skill that
\* can be resolved once, the candidate last.
C31_MissIsSkipped ==
    /\ [][MissStep => /\ pc' = "loop"
                      /\ parsed_result'.dependencies = Tail(parsed_result.dependencies)
                      /\ UNCHANGED <<dependent_code, visited>>]_vars
    /\ [](pc = "done" =>
            /\ dependent_code
                  = Append(Reverse(ResolutionOfListed(Listed(called_with), {}, <<>>)),
                           CandidateCode)
            /\ parsed_result.full_code = Join(dependent_code, BlankLine)
            /\ \A n \in Reachable : Occurrences(dependent_code, EntryOf(n).code) = 1)

\* the candidate lists c, which no table holds, before a, whose entry lists c and b
C31_Witness ==
    /\ pc = "done"
    /\ Len(fn_str_map_list) = 1
    /\ called_with = << <<"c">>, <<"a">> >>
    /\ ~IsHeld(<<"c">>)
    /\ IsHeld(<<"a">>)
    /\ DependenciesOf(<<"a">>) = << <<"c">>, <<"b">> >>
    /\ dependent_code = <<SkillCode(<<"b">>), SkillCode(<<"a">>), CandidateCode>>

\* m's entry lists n
DependsOn(m, n) ==
    \E i \in 1..Len(DependenciesOf(m)) : DependenciesOf(m)[i] = n

\* no included skill depends on itself, directly or through other skills
Acyclic ==
    \A n \in Reachable : n \notin ClosedUnder(Held(DependenciesOf(n)))

\* where the code of an included skill is in the assembled list
PlaceOf(name) == CHOOSE i \in 1..Len(dependent_code) : dependent_code[i] = EntryOf(name).code

\* C32: when the recorded dependencies have no cycle, the assembled unit has
\* the code of every included skill before the code of each included skill
\* that depends on it.
C32_DependenciesComeFirst ==
    (pc = "done" /\ Acyclic)
        => \A m \in Reachable, n \in Reachable :
              DependsOn(m, n) => PlaceOf(n) < PlaceOf(m)

(***************************************************************************)
(* Claims about stored skills (SpecStore).                                 *)
(***************************************************************************)

\* C33: an add, under either dedup policy, keeps every entry of the metadata
\* map under its name with its code, dependencies, task and description; what
\* it inserts, it inserts under one name that was not a key.
C33_StoredSkillIsImmutable ==
    [][ last'.op = "add" =>
          /\ \A name \in DOMAIN fn_str_map :
                /\ name \in DOMAIN fn_str_map'
                /\ fn_str_map'[name] = fn_str_map[name]
          /\ Cardinality(DOMAIN fn_str_map' \ DOMAIN fn_str_map) <= 1
          /\ Stored(last') =>
                /\ last'.ret \notin DOMAIN fn_str_map
                /\ DOMAIN fn_str_map' = DOMAIN fn_str_map \cup {last'.ret} ]_vars

\* a payload named f was added to a store that held f: it is stored as f_v2, f is kept
C33_Witness ==
    /\ Stored(last)
    /\ last.payload.name = <<"f">>
    /\ last.ret = <<"f", "_", "v", "2">>
    /\ <<"f">> \in DOMAIN fn_str_map
    /\ fn_str_map[<<"f">>].code # fn_str_map[last.ret].code

(***************************************************************************)
(* Claims about the failed ledger (SpecLedger).                            *)
(***************************************************************************)

\* the k-th smallest member of a set of positions
KthOf(positions, k) ==
    CHOOSE i \in positions : Cardinality({j \in positions : j < i}) = k - 1

\* C34: recording an outcome changes failed only by taking out every
\* occurrence of the tasks that are in completed: the other entries keep their
\* number of occurrences and their order, and a failure recorded for a task
\* that is in completed is not kept.
C34_CleanupOnlyRemovesCompleted ==
    [][ last'.op = "record" =>
          LET before == IF last'.queried THEN failed_tasks
                        ELSE Append(failed_tasks, last'.query)
              done == Members(completed_tasks')
              stay == {i \in 1..Len(before) : before[i] \notin done}
          IN /\ \A t \in LedgerTasks :
                   Occurrences(failed_tasks', t)
                      = IF t \in done THEN 0 ELSE Occurrences(before, t)
             /\ Len(failed_tasks') = Cardinality(stay)
             /\ \A k \in 1..Len(failed_tasks') : failed_tasks'[k] = before[KthOf(stay, k)]
             /\ (~last'.queried /\ last'.query \in Members(completed_tasks))
                   => /\ last'.query \notin Members(failed_tasks')
                      /\ Len(failed_tasks') <= Len(failed_tasks) ]_vars

\* a third failure of task 3, never completed, recorded after 2 was completed
C34_Witness ==
    /\ last.op = "record"
    /\ ~last.queried
    /\ last.query = 3
    /\ completed_tasks = <<2>>
    /\ failed_tasks = <<3, 1, 3, 3>>

(* C35: a synthesized task passes validation only if every one of its test *)
(* cases is a single assert statement whose call expression contains the   *)
(* expected function name, and the test list of an accepted task is the    *)
(* proposed test cases in the same order.                                  *)
SingleAssertStatement(test_case) ==
    /\ StartsWith(test_case, AssertKw \o <<" ">>)
    /\ \A i \in 1..Len(test_case) : test_case[i] # ";"

C35_AcceptedTestsAreSingleAsserts ==
    proposal.pc = "returned" =>
       LET r == proposal.response
       IN /\ \A k \in 1..Len(r.test_tuple) :
                /\ SingleAssertStatement(r.test_tuple[k])
                /\ InText(r.gt_fn_name, CallStr(r.test_tuple[k]))
          /\ r.test_list = r.test_tuple

\* the names an import statement of the source mentions, imported or bound
ImportedNames ==
    {analysis.code.nodes[i].name : i \in NodesOfKind({"Import", "ImportFrom"})} \cup ImportBound

(* C36: every name called in the analysed source, in a function body or in *)
(* a statement outside any function, is in the dependency names unless it  *)
(* is a built-in, a function the source defines or an imported name.       *)
C36_EveryCallIsADependency ==
    (analysis.pc = "analysed" /\ analysis.out.raised = "")
        => \A i \in NodesOfKind({"Call"}) :
              analysis.code.nodes[i].name \notin (Builtins \cup DefinedFunctions \cup ImportedNames)
                 => analysis.code.nodes[i].name \in analysis.out.dependencies

\* the dependency names parse_ai_code returned with the candidate of this code
AnalysedDependencies(code) ==
    (CHOOSE c \in Candidates : c.program_code = code).dependencies

(* C37: the skill archived after a successful rollout records as its       *)
(* dependencies the dependency names the analysis computed for the accepted *)
(* candidate: assembling the executable unit has left them unchanged.       *)
C37_ArchivedDependenciesAreAnalysed ==
    [][ArchiveStep =>
          \A n \in (DOMAIN fn_str_map') \ (DOMAIN fn_str_map) :
             fn_str_map'[n].dependencies = AnalysedDependencies(agent.code)]_vars

(***************************************************************************)
(* Claims about what a rollout returns and records (SpecRollout).          *)
(***************************************************************************)

\* the rollout has returned success
ReturnedSuccess == agent.pc = "returned" /\ agent.ret[1]

(* C38: when a rollout returns success, the candidate it returns was        *)
(* produced in the final attempt, and in that attempt it passed validation, *)
(* its unit was executed and the critique that reported success was         *)
(* computed on its code; an attempt without a candidate neither executes    *)
(* nor critiques anything.                                                  *)
C38_SuccessIsOfFinalAttempt ==
    /\ ReturnedSuccess =>
          /\ agent.attempts # <<>>
          /\ Len(agent.attempts) = agent.i
          /\ LET final == agent.attempts[Len(agent.attempts)]
             IN /\ final.parsed = "dict"
                /\ agent.ret[2] = "dict"
                /\ final.program_code = parsed_result.program_code
                /\ final.step
                /\ final.check_success
                /\ final.critic_out.success
                /\ final.critic_out = agent.critic_out
                /\ agent.code = final.program_code
    /\ \A k \in 1..Len(agent.attempts) :
          agent.attempts[k].parsed # "dict"
             => ~agent.attempts[k].step /\ ~agent.attempts[k].check_success

\* success is returned by a second attempt that follows one without a candidate
C38_Witness ==
    /\ ReturnedSuccess
    /\ Len(agent.attempts) = 2
    /\ agent.attempts[1].parsed \in NoCandidate
    /\ agent.attempts[2].step

\* a step of a rollout that test_one runs, its call included
TestOneStep == agent'.mode = "test_one"

(* C39: a rollout run through test_one, whatever its outcome, leaves the    *)
(* skill library (metadata map and index, in memory and stored) and the     *)
(* task ledger (completed, failed, previous task) unchanged.                *)
C39_TestOneKeepsLibraryAndLedger ==
    [][TestOneStep =>
          /\ UNCHANGED <<fn_str_map, vectordb, pMap, pIdx>>
          /\ UNCHANGED <<completed_tasks, failed_tasks, previous_task, ledger_file>>]_vars

\* test_one has returned a success over a library that holds a skill
C39_Witness ==
    /\ agent.mode = "test_one"
    /\ agent.pc = "returned"
    /\ agent.ret[1]
    /\ fn_str_map # EmptyMap

\* the fields of the record are what an attempt obtained for the record's code: the
\* feedback of its execution and the critique computed on it, or the initial values of
\* the rollout where the attempt did not get that far
ObtainedFor(record, attempt) ==
    /\ attempt.parsed = "dict"
    /\ attempt.program_code = record.code
    /\ record.env_feedback = attempt.env_feedback
    /\ record.success = attempt.critic_out.success
    /\ record.critique = attempt.critic_out.critique

(* C40: in every persisted rollout record the environment feedback, the    *)
(* critique and the success flag are those obtained for the record's own   *)
(* code, in every terminal state: a record without code holds the initial  *)
(* values.                                                                 *)
C40_RecordIsOfItsOwnCode ==
    (agent.pc = "returned" /\ RolloutFile \in DOMAIN output_files) =>
       LET record == output_files[RolloutFile]
       IN IF record.code = <<>>
          THEN record.env_feedback = "" /\ ~record.success /\ record.critique = ""
          ELSE \E k \in 1..Len(agent.attempts) : ObtainedFor(record, agent.attempts[k])
====
